---- MODULE Spec2Model ----
(***************************************************************************)
(* Race engine back end: the broadcast fabric (websocket/wsServer.ts), the *)
(* tick driver's broadcasts (race/raceEngine.ts) and the 60-second cycle   *)
(* state machine (race/raceScheduler.ts).                                  *)
(*                                                                         *)
(* Spec, SpecSeq, SpecDriver : one node's RaceWebSocketServer with its     *)
(*             subscribers, the edge subscriber that re-broadcasts frames  *)
(*             arriving from the bus, and the tick driver of a started     *)
(*             race.                                                       *)
(* SpecCycle : RaceStateMachine driven by tick() and transition().         *)
(* SpecEngine, SpecServer : the engine loop (race/engineLoop.ts) over a    *)
(*             started race, and from boot beside the cycle.               *)
(* SpecSync  : the catch-up handler handleSyncRequest (wsServer.ts).       *)
(* SpecKeepalive : the keepalive sweep and the pong handler (wsServer.ts). *)
(* SpecEffects : applyEventEffects (race/events/effects.ts) and            *)
(*             determineWinner (race/winner.ts).                           *)
(* SpecRelay : the edge's relay of signed frames from the bus.             *)
(* SpecTimeline : generateEventTimeline (race/events/timeline.ts).         *)
(* SpecSeed  : seedPrecomputedRace (race/raceEngine.ts), called twice.     *)
(* SpecPersist : FileRacePersistence.saveRace, write by write.             *)
(* SpecRestart : runRestartRecovery, startEngine and the loop at boot.     *)
(* SpecClock : the engine loop with its planned tick times.                *)
(* SpecRaces : the races of consecutive cycles and their frames.           *)
(* SpecElector : LeaderElector (leader/elector.ts) of two nodes.           *)
(* SpecRegistry : MasterTimelineImpl (timeline/masterTimeline.ts).         *)
(***************************************************************************)
EXTENDS Integers, Sequences, FiniteSets, TLC

VARIABLES
  \* ---- RaceWebSocketServer (wsServer.ts) ----
  role,                     \* RaceWebSocketServer.role
  signingEnabled,           \* isSigningEnabled(): fixed by the environment
  seqByRace,                \* Map raceId -> last seq attached (0: no entry)
  lastKeyframeTickByRace,   \* Map raceId -> tick of last keyframe (-1: no entry)
  lastPositionsByRace,      \* Map raceId -> positions (<<>>: no entry)
  clients,                  \* Set<WebSocket> in insertion order
  clientPrefs,              \* WeakMap ws -> {binary, mode}
  readyState,               \* ws.readyState (1 = OPEN)
  droppedTickFrames,        \* RaceWebSocketServer.droppedTickFrames
  \* ---- tick driver (raceEngine.ts) ----
  lastBroadcastedTick,      \* currentRace.lastBroadcastedTick
  isActive,                 \* currentRace.isActive
  \* ---- the bus: the peer leader that publishes the frames an edge receives ----
  peerSeq,                  \* the peer's own seqByRace
  busTick,                  \* tick index of the last frame delivered, per race
  \* ---- what the last handler did (observation) ----
  lastType,                 \* type of the message of the last broadcast() call
  lastOut,                  \* per client: what the last handler did for it, in
                            \* order: the type of each frame sent, "skipped"
                            \* for each frame skipped
  \* ---- history (observation) ----
  lastSeqSent,              \* per race: seq of the last tick frame sent to the
                            \* observed subscriber
  keyPosSent,               \* per race: positions of the last keyframe sent to
                            \* the observed subscriber
  nSequenced,               \* per race: number of frames this node has sequenced
  demoted,                  \* the role went leader -> edge after sequencing began
  \* ---- RaceStateMachine (raceScheduler.ts) ----
  state,                    \* RaceStateMachine.state
  currentSecond,            \* RaceStateMachine.currentSecond
  currentSeed,              \* RaceState current cycle seed (0: not set, N: "cycle-N")
  cycleCounter,             \* RaceState cycle counter behind bumpCycle()
  precomputed,              \* raceEngine.ts `precomputed` (0: null, N: race of cycle-N)
  raceStarted,              \* raceEngine.ts `currentRace` set by startPrecomputedRace
  threw,                    \* the last call ended by throwing
  phasePath,                \* the phases the last call went through, the phase
                            \* it started in first (observation)
  ticksOnly,                \* no one but tick() has changed the phase so far
                            \* (observation)
  tickCalls,                \* tick() calls since boot, modulo CYCLE_SECONDS,
                            \* while only tick() has driven the machine
                            \* (observation)
  stateEvents,              \* 'state' notifications the last call emitted
                            \* (observation)
  lastCall,                 \* the last call: "boot", "tick" or "transition"
                            \* (observation)
  \* ---- engine loop (engineLoop.ts) ----
  running,                  \* engineLoop.ts `running`
  timerRef,                 \* engineLoop.ts `timerRef`: a loop timer is pending
  tickCount,                \* engineLoop.ts `tickCount`
  statePrecomputed,         \* RaceState.getPrecomputedRace() is not null
  currentTickIndex,         \* activeRaces record of the race: currentTickIndex
  \* ---- what the engine did (observation) ----
  engineTicks,              \* engineTick events emitted since the last start()
  lastEngineTick,           \* tick of the last engineTick event (-1: none yet)
  streamed,                 \* tick indices of the race:tick frames broadcast
                            \* for the current race, in order
  finishFrames,             \* race:finish frames broadcast for the current race
  persisted,                \* persistCompletedRace calls for the current race
  highTickIndex,            \* highest currentTickIndex the race has had
  \* ---- catch-up handler (wsServer.ts handleSyncRequest) ----
  nowMs,                    \* Date.now()
  lastSyncByClient,         \* WeakMap ws -> timestamp (0: no entry, read as 0)
  syncReply,                \* frames the last sync:request was answered with
                            \* (observation)
  lastAnswerAt,             \* per client: time of the last request that was
                            \* answered with a frame, -1: none (observation)
  answerGap,                \* per client: time between the last two answered
                            \* requests, -1: fewer than two (observation)
  \* ---- keepalive (wsServer.ts init) ----
  clientAlive,              \* WeakMap ws -> boolean
  pongSince,                \* per client: it sent a pong since the last sweep
                            \* (observation)
  atSweep,                  \* per client: its socket was in the set at the
                            \* last sweep and was pinged (observation)
  terminated,               \* per client: keepalive terminated its socket
                            \* (observation)
  sweepParity,              \* flips at every keepalive sweep (observation)
  \* ---- applyEventEffects (race/events/effects.ts) ----
  baseStep,                 \* baseHorsePaths: per-tick advance of each horse
  effTick,                  \* `tick` of the loop: the next tick to compute
  stunUntil,                \* Map horseId -> tick (-1: no entry)
  removed,                  \* Map horseId -> boolean
  activeEventsWindows,      \* Map horseId -> ActiveWindow[]
  activeSwaps,              \* Map horseId -> SwapWindow
  prevFinalPosition,        \* Map horseId -> position
  resultRow,                \* result[effTick - 1]
  resultPrev,               \* result[effTick - 2]
  \* ---- determineWinner (race/winner.ts) ----
  firstCrossTick,           \* determineWinner `firstCrossTick`
  crossingIds,              \* determineWinner `crossingIds`
  \* ---- the timeline given and what it did (observation) ----
  eventsApplied,            \* events of the timeline applied so far
  removedAt,                \* per horse: tick at which ufo_abduction removed
                            \* it (-1: not removed)
  chainAt,                  \* per horse: ticks of the chain_reaction events
                            \* placed while it was not removed
  reachedAt,                \* per horse: first tick at which it was at the
                            \* finish line and not removed (-1: none)
  \* ---- generateEventTimeline (race/events/timeline.ts) ----
  catalog,                  \* the catalog given: per id its category and
                            \* conflictsWith
  candidates,               \* `candidates`, sorted
  nextCandidate,            \* position of the placement loop in candidates
  placed,                   \* Map tick -> EventInstance[] (<<>>: no entry)
  lastPlacedById,           \* Map id -> tick (-1: no entry)
  \* ---- seedPrecomputedRace (race/raceEngine.ts) ----
  seedInt,                  \* RaceState.getCurrentSeedInt()
  seeding,                  \* a call of seedPrecomputedRace is under way
  matrix,                   \* finalHorseStateMatrix: the rows computed so far
  lastPrecomputed,          \* module variable `precomputed` (NoRace: null)
  precomputeCalls,          \* engineMetrics: precomputations recorded
  firstPrecomputed,         \* what the first call for the seed stored
                            \* (observation)
  seedCalls,                \* calls of seedPrecomputedRace finished
                            \* (observation)
  \* ---- FileRacePersistence (recovery/restartRecovery.ts) ----
  savePc,                   \* position of saveRace: the operation awaited
  saveData,                 \* `data`: which optional artifacts it carries
  unsaved,                  \* `unsaved`: Set of race ids
  flagFile,                 \* UNSAVED.flag exists
  summaryFile,              \* summary.json: absent, old, new or partial
  summaryTmp,               \* summary.json.tmp: absent, partial or complete
  failedWrites,             \* artifact writes that failed in the running
                            \* call (observation)
  saveCalls,                \* calls of saveRace finished (observation)
  \* ---- the schedule of the engine loop (race/engineLoop.ts) ----
  perfNow,                  \* performance.now()
  nextTickTime,             \* `nextTickTime` (-1: null)
  timerDue,                 \* time at which the pending timer is due
  startedAt,                \* performance.now() at start() (observation)
  timerSetAt,               \* performance.now() when the pending timer was
                            \* set (observation)
  \* ---- the races of consecutive cycles (race/raceEngine.ts) ----
  precomputedId,            \* `precomputed`: the cycle whose race it is
                            \* (0: null)
  currentRace,              \* `currentRace`: id (0: null), isActive,
                            \* lastBroadcastedTick
  smPhase,                  \* phase of the cycle state machine
  frameLog,                 \* the frames broadcast (observation)
  \* ---- LeaderElector of each of two nodes (leader/elector.ts) ----
  electorRole,              \* per node: LeaderElector.role
  redis,                    \* per node: `redis` is set (start() has connected)
  leaderKey,                \* value of the leader key in the store (NoNode:
                            \* the key does not exist)
  ttlLeft,                  \* renewal periods left before the key expires
  acquirePc,                \* per node: position in tryAcquire
  renewPc,                  \* per node: position in renewIfLeader
  \* ---- MasterTimelineImpl (timeline/masterTimeline.ts) ----
  timers,                   \* Map id -> TimerEntry (NoEntry: no entry)
  pendingTimers,            \* the timers of the runtime not yet fired or
                            \* cleared, each with what its callback does
  nextRef,                  \* the next timer reference the runtime hands out
  cancelled,                \* references pending when clear() was called for
                            \* their id, clearAllForRace() for their race, or
                            \* shutdown() (observation)
  ranAfterClear             \* references whose callback ran after they were
                            \* cancelled (observation)

wsVars == << role, signingEnabled, seqByRace, lastKeyframeTickByRace,
             lastPositionsByRace, clients, clientPrefs, readyState,
             droppedTickFrames, lastBroadcastedTick, isActive,
             peerSeq, busTick, lastType, lastOut,
             lastSeqSent, keyPosSent, nSequenced, demoted >>

cycleVars == << state, currentSecond, currentSeed, cycleCounter, precomputed,
                raceStarted, threw, phasePath, ticksOnly, tickCalls,
                stateEvents, lastCall >>

engineVars == << running, timerRef, tickCount, statePrecomputed,
                 currentTickIndex, engineTicks, lastEngineTick, streamed,
                 finishFrames, persisted, highTickIndex >>

syncVars == << nowMs, lastSyncByClient, syncReply, lastAnswerAt, answerGap >>

aliveVars == << clientAlive, pongSince, atSweep, terminated, sweepParity >>

\* inputs and results of the race precomputation
effectsVars == << baseStep, effTick, stunUntil, removed, activeEventsWindows,
                  activeSwaps, prevFinalPosition, resultRow, resultPrev,
                  firstCrossTick, crossingIds, eventsApplied, removedAt,
                  chainAt, reachedAt >>

timelineVars == << catalog, candidates, nextCandidate, placed, lastPlacedById >>

seedVars == << seedInt, seeding, matrix, lastPrecomputed, precomputeCalls,
               firstPrecomputed, seedCalls >>

persistVars == << savePc, saveData, unsaved, flagFile, summaryFile,
                  summaryTmp, failedWrites, saveCalls >>

\* the state of the components modelled on their own
clockVars == << perfNow, nextTickTime, timerDue, startedAt, timerSetAt >>

raceVars == << precomputedId, currentRace, smPhase, frameLog >>

electorVars == << electorRole, redis, leaderKey, ttlLeft, acquirePc, renewPc >>

registryVars == << timers, pendingTimers, nextRef, cancelled, ranAfterClear >>

compVars == << persistVars, clockVars, raceVars, electorVars, registryVars >>
restVars == << seedVars, compVars >>
notPersistVarsButClock == << wsVars, cycleVars, engineVars, syncVars,
                             aliveVars, effectsVars, timelineVars, seedVars,
                             raceVars, electorVars, registryVars >>
notRaceVars == << wsVars, cycleVars, engineVars, syncVars, aliveVars,
                  effectsVars, timelineVars, seedVars, persistVars,
                  clockVars, electorVars, registryVars >>
notCompVars == << wsVars, cycleVars, engineVars, syncVars, aliveVars,
                  effectsVars, timelineVars, seedVars >>
notElectorVars == << notCompVars, persistVars, clockVars, raceVars,
                     registryVars >>
notRegistryVars == << notCompVars, persistVars, clockVars, raceVars,
                      electorVars >>
notPersistVars == << notPersistVarsButClock, clockVars >>

pureVars == << effectsVars, timelineVars, restVars >>

vars == << wsVars, cycleVars, engineVars, syncVars, aliveVars, pureVars >>

(***************************************************************************)
(* Program constants                                                       *)
(***************************************************************************)
WS_BACKPRESSURE_THRESHOLD == 1000000
KEYFRAME_INTERVAL_TICKS == 20
MAX_CATCHUP_TICKS == 50
DEFAULT_CATCHUP_TICKS == 10
SYNC_COOLDOWN_MS == 2000
CYCLE_SECONDS == 60

(***************************************************************************)
(* Bounds of the model                                                     *)
(***************************************************************************)
\* tick indices a bus frame may carry: 0..MaxLowTick, and one tick that is a
\* keyframe interval after tick 1
MaxLowTick == 2
\* length of the final state matrix of the started race (totalTicks)
TotalTicks == 3
\* cap of the dropped-frame counter
MaxDropped == 2
\* cap of the engine loop's tick counter
MaxEngineTicks == 4
\* ticks of the served race beyond MAX_CATCHUP_TICKS
ExtraTicks == 3
\* the clock runs for this many cooldowns after boot
MaxClockSteps == 1
\* ticks of a precomputed race (length of the base path matrix)
NumTicks == 23
\* events an event timeline holds, at ticks 0 .. MaxEvents
MaxEvents == 2
\* finishLine = trackLength * finishRatio, in position units
FinishLine == 20
\* maxOccurrencesPerRace of the entries of the catalogs given
MaxOccurrences == 2

ClientIds == {"A", "B"}
\* The subscriber whose frames the history variables follow; the other
\* one is any other subscriber.  Both connect in either order.
Observed == "B"
Races == {"r1", "r2"}
NoRace == "none"

TickIndices == (0 .. MaxLowTick) \cup {KEYFRAME_INTERVAL_TICKS + 1}

\* ws.bufferedAmount values: empty, exactly the threshold, one byte above it
BufferedValues ==
  {0, WS_BACKPRESSURE_THRESHOLD, WS_BACKPRESSURE_THRESHOLD + 1}

\* The sockets' bufferedAmount as one broadcast() call reads them
Buffers == [ClientIds -> BufferedValues]

\* The readings the handlers are run with: at the threshold or one byte
\* above it for a connected socket (0 behaves as the threshold does), 0 for
\* a socket that is not in the set and is never read.
StepBuffers(cs) ==
  { b \in Buffers :
      \A c \in ClientIds :
        IF \E i \in 1 .. Len(cs) : cs[i] = c THEN b[c] # 0 ELSE b[c] = 0 }

\* The canonical per-tick positions of the matrix (two horses).
Positions(t) == << 5 * t, 3 * t + 1 >>

TickTypes == {"race:tick", "race:keyframe", "race:delta"}
CriticalTypes == {"race:keyframe", "race:start", "race:finish"}

(***************************************************************************)
(* Messages and frames                                                     *)
(***************************************************************************)
\* A message handed to broadcast().  raceId is message.data.raceId (NoRace:
\* undefined), tickIndex is message.data.tickIndex (-1: not a number),
\* hasPositions tells whether message.data.positions is an array, seq = 0
\* means the message carries no seq.
\* sig is "none", "peer" (signed by the publishing
\* leader) or "own" (signed by this node).
Msg(type, raceId, tickIndex, hasPositions, positions, seq, sig) ==
  [ type |-> type, raceId |-> raceId, tickIndex |-> tickIndex,
    hasPositions |-> hasPositions, positions |-> positions,
    seq |-> seq, tickTs |-> seq > 0, protoVer |-> seq > 0, sig |-> sig ]

NoMsg == Msg("none", NoRace, -1, FALSE, << >>, 0, "none")

\* A frame as written to one subscriber's socket.
Frame(type, raceId, tickIndex, positions, deltas, seq, tickTs, protoVer, sig, binary) ==
  [ type |-> type, raceId |-> raceId, tickIndex |-> tickIndex,
    positions |-> positions, deltas |-> deltas, seq |-> seq,
    tickTs |-> tickTs, protoVer |-> protoVer, sig |-> sig, binary |-> binary ]

\* JSON.stringify(payloadObj), possibly with the type replaced
JsonFrame(p, type, deltas) ==
  Frame(type, p.raceId, p.tickIndex, p.positions, deltas, p.seq, p.tickTs,
        p.protoVer, p.sig, FALSE)

\* The binary header {type, seq, tickTs, tickIndex, protoVer} and the packed
\* positions: no raceId and no signature, tickIndex is broadcast()'s local.
BinaryFrame(p, tickIndex) ==
  Frame(p.type, NoRace, tickIndex, p.positions, << >>, p.seq, p.tickTs,
        TRUE, "none", TRUE)

DefaultPrefs == [binary |-> FALSE, mode |-> "plain"]

(***************************************************************************)
(* RaceWebSocketServer.broadcast                                           *)
(***************************************************************************)
\* The state one handler threads through its broadcast() calls: the maps
\* and the counter broadcast() writes, and what it has sent so far.
StartOfHandler ==
  [ seq |-> seqByRace, key |-> lastKeyframeTickByRace,
    pos |-> lastPositionsByRace, dropped |-> droppedTickFrames,
    sent |-> [c \in ClientIds |-> << >>],
    out |-> [c \in ClientIds |-> << >>],
    published |-> << >>,
    seqSent |-> lastSeqSent, keyPos |-> keyPosSent, nSeq |-> nSequenced ]

\* client.send(frame), with the history of what the subscriber has been sent
Send(st, c, frame, raceId) ==
  LET st1 == [st EXCEPT !.sent[c] = Append(@, frame),
                        !.out[c] = Append(@, frame.type)]
      st2 == IF frame.type \in TickTypes /\ raceId # NoRace /\ frame.seq > 0
               THEN [st1 EXCEPT !.seqSent[raceId] = frame.seq]
               ELSE st1
  IN IF c # Observed THEN st1
     ELSE IF frame.type = "race:keyframe" /\ raceId # NoRace
       THEN [st2 EXCEPT !.keyPos[raceId] = frame.positions]
       ELSE st2

\* lastKeyframeTickByRace.get(raceId) || -Infinity, then the cadence test:
\* a missing entry and an entry of 0 both read as -Infinity
NeedKeyframe(key, raceId, tickIndex) ==
  LET lastKeyTick == key[raceId]
  IN \/ lastKeyTick = -1
     \/ lastKeyTick = 0
     \/ tickIndex - lastKeyTick >= KEYFRAME_INTERVAL_TICKS

\* A skip test that also skips at exactly the threshold
SkipAtThreshold(type, bufAmt) ==
  type = "race:tick" /\ bufAmt >= WS_BACKPRESSURE_THRESHOLD

\* type === 'race:tick' && bufAmt > WS_BACKPRESSURE_THRESHOLD
SkipForBackpressure(type, bufAmt) ==
  type = "race:tick" /\ bufAmt > WS_BACKPRESSURE_THRESHOLD

Deltas(positions, lastPos) ==
  [i \in 1 .. Len(positions) |-> positions[i] - lastPos[i]]

\* One iteration of the loop over this.clients.
ClientStep(c, msg, payload, tickIndex, bufAmt, st) ==
  LET prefs == clientPrefs[c]
      r == msg.raceId
      plain == Send(st, c, JsonFrame(payload, payload.type, << >>), r)
  IN
  IF readyState[c] # 1 THEN st
  ELSE IF SkipForBackpressure(msg.type, bufAmt)
    THEN [st EXCEPT !.dropped = @ + 1, !.out[c] = Append(@, "skipped")]
  ELSE IF prefs.binary /\ msg.type = "race:tick" /\ msg.hasPositions
    THEN Send(st, c, BinaryFrame(payload, tickIndex), r)
  ELSE IF /\ ~prefs.binary /\ prefs.mode = "delta" /\ msg.type = "race:tick"
          /\ msg.hasPositions /\ tickIndex >= 0 /\ r # NoRace
    THEN IF NeedKeyframe(st.key, r, tickIndex)
           THEN Send([st EXCEPT !.key[r] = tickIndex, !.pos[r] = msg.positions],
                     c, JsonFrame(payload, "race:keyframe", << >>), r)
         ELSE IF Len(st.pos[r]) > 0 /\ Len(st.pos[r]) = Len(msg.positions)
           THEN Send([st EXCEPT !.pos[r] = msg.positions], c,
                     JsonFrame(payload, "race:delta",
                               Deltas(msg.positions, st.pos[r])), r)
         ELSE plain
  ELSE plain

RECURSIVE SendLoop(_, _, _, _, _, _)
SendLoop(i, msg, payload, tickIndex, buf, st) ==
  IF i > Len(clients) THEN st
  ELSE SendLoop(i + 1, msg, payload, tickIndex, buf,
                ClientStep(clients[i], msg, payload, tickIndex,
                           buf[clients[i]], st))

\* seq, tickTs and protoVer are attached by the leader to a race:tick
\* message that names its race
Sequenced(msg) ==
  role = "leader" /\ msg.type = "race:tick" /\ msg.raceId # NoRace

Broadcast(msg, buf, st) ==
  LET isLeader == role = "leader"
      r == msg.raceId
      sequenced == Sequenced(msg)
      currentSeq == IF sequenced THEN st.seq[r] + 1 ELSE 0
      st1 == IF sequenced
               THEN [st EXCEPT !.seq[r] = currentSeq, !.nSeq[r] = @ + 1]
               ELSE st
      tickIndex == IF sequenced THEN msg.tickIndex ELSE -1
      payload0 == IF sequenced
                    THEN [msg EXCEPT !.seq = currentSeq, !.tickTs = TRUE,
                                     !.protoVer = TRUE]
                    ELSE msg
      payload == IF isLeader /\ msg.type = "race:tick" /\ signingEnabled
                   THEN [payload0 EXCEPT !.sig = "own"]
                   ELSE payload0
      st2 == SendLoop(1, msg, payload, tickIndex, buf, st1)
  IN IF isLeader /\ r # NoRace /\ msg.type \in TickTypes
       THEN [st2 EXCEPT !.published =
                          Append(@, JsonFrame(payload, payload.type, << >>))]
       ELSE st2

\* The handler's writes, once its broadcast() calls are done.
Commit(msg, st) ==
  /\ st.dropped <= MaxDropped
  /\ seqByRace' = st.seq
  /\ lastKeyframeTickByRace' = st.key
  /\ lastPositionsByRace' = st.pos
  /\ droppedTickFrames' = st.dropped
  /\ lastType' = msg.type
  /\ lastOut' = st.out
  /\ lastSeqSent' = st.seqSent
  /\ keyPosSent' = st.keyPos
  /\ nSequenced' = st.nSeq

\* A handler that does not call broadcast() leaves the maps alone
NoBroadcast ==
  /\ UNCHANGED << seqByRace, lastKeyframeTickByRace, lastPositionsByRace,
                  droppedTickFrames, nSequenced >>
  /\ lastType' = "none"

(***************************************************************************)
(* Handlers of the node                                                    *)
(***************************************************************************)
Remove(q, c) == SelectSeq(q, LAMBDA x : x # c)

InClients(c) == \E i \in 1 .. Len(clients) : clients[i] = c

NoOut == [c \in ClientIds |-> << >>]

\* wss.on('connection'): the socket joins the set, its preferences are read
\* from the query string, and race:info is sent when RaceState holds a
\* precomputed race (hasInfo; RaceState is outside this specification).
Connect(c, binary, mode, hasInfo) ==
  /\ ~InClients(c)
  /\ clients' = Append(clients, c)
  /\ clientPrefs' = [clientPrefs EXCEPT ![c] = [binary |-> binary, mode |-> mode]]
  /\ readyState' = [readyState EXCEPT ![c] = 1]
  /\ lastOut' = [NoOut EXCEPT ![c] = IF hasInfo THEN << "race:info" >> ELSE << >>]
  /\ NoBroadcast
  /\ UNCHANGED << role, signingEnabled, lastBroadcastedTick, isActive, peerSeq,
                  busTick, lastSeqSent, keyPosSent, demoted >>
  /\ UNCHANGED cycleVars
  /\ clientAlive' = [clientAlive EXCEPT ![c] = TRUE]
  /\ pongSince' = [pongSince EXCEPT ![c] = FALSE]
  /\ atSweep' = [atSweep EXCEPT ![c] = FALSE]
  /\ terminated' = [terminated EXCEPT ![c] = FALSE]
  /\ UNCHANGED sweepParity
  /\ UNCHANGED << engineVars, syncVars, pureVars >>

\* ws.on('close') and ws.on('error'): the socket leaves the set.  The socket
\* object is gone, and with it what is kept per socket.
Close(c) ==
  /\ InClients(c)
  /\ clients' = Remove(clients, c)
  /\ clientPrefs' = [clientPrefs EXCEPT ![c] = DefaultPrefs]
  /\ readyState' = [readyState EXCEPT ![c] = 1]
  /\ lastSeqSent' = IF c = Observed THEN [r \in Races |-> 0] ELSE lastSeqSent
  /\ keyPosSent' = IF c = Observed THEN [r \in Races |-> << >>] ELSE keyPosSent
  /\ lastOut' = NoOut
  /\ NoBroadcast
  /\ UNCHANGED << role, signingEnabled, lastBroadcastedTick, isActive, peerSeq,
                  busTick, demoted >>
  /\ UNCHANGED cycleVars
  /\ clientAlive' = [clientAlive EXCEPT ![c] = TRUE]
  /\ pongSince' = [pongSince EXCEPT ![c] = FALSE]
  /\ atSweep' = [atSweep EXCEPT ![c] = FALSE]
  /\ UNCHANGED << terminated, sweepParity >>
  /\ UNCHANGED << engineVars, syncVars, pureVars >>

\* The transport: a socket starts closing (readyState 2) before its close
\* event is handled.
SocketClosing(c) ==
  /\ InClients(c)
  /\ readyState[c] = 1
  /\ readyState' = [readyState EXCEPT ![c] = 2]
  /\ lastOut' = NoOut
  /\ NoBroadcast
  /\ UNCHANGED << role, signingEnabled, clients, clientPrefs,
                  lastBroadcastedTick, isActive, peerSeq, busTick, lastSeqSent,
                  keyPosSent, demoted >>
  /\ UNCHANGED cycleVars
  /\ UNCHANGED << engineVars, syncVars, aliveVars, pureVars >>

\* A setRole that forgets the sequence numbers of the races
SetRoleResetsSeq(newRole) ==
  /\ newRole # role
  /\ role' = newRole
  /\ seqByRace' = [r \in Races |-> 0]
  /\ demoted' = (demoted \/ (newRole = "edge" /\ \E r \in Races : seqByRace[r] > 0))
  /\ lastOut' = NoOut
  /\ lastType' = "none"
  /\ UNCHANGED << signingEnabled, clients, clientPrefs, readyState,
                  lastKeyframeTickByRace, lastPositionsByRace,
                  droppedTickFrames, nSequenced,
                  lastBroadcastedTick, isActive, peerSeq, busTick, lastSeqSent,
                  keyPosSent >>
  /\ UNCHANGED cycleVars
  /\ UNCHANGED << engineVars, syncVars, aliveVars, pureVars >>

\* RaceWebSocketServer.setRole, called on the elector's role events
SetRole(newRole) ==
  /\ newRole # role
  /\ role' = newRole
  /\ demoted' = (demoted \/ (newRole = "edge" /\ \E r \in Races : seqByRace[r] > 0))
  /\ lastOut' = NoOut
  /\ NoBroadcast
  /\ UNCHANGED << signingEnabled, clients, clientPrefs, readyState,
                  lastBroadcastedTick, isActive, peerSeq, busTick, lastSeqSent,
                  keyPosSent >>
  /\ UNCHANGED cycleVars
  /\ UNCHANGED << engineVars, syncVars, aliveVars, pureVars >>

\* The frame the tick driver hands to broadcast(): data is the array of
\* position updates, so data.raceId, data.tickIndex and data.positions are
\* all undefined.
DriverTickMsg(idx) ==
  Msg("race:tick", NoRace, -1, FALSE, Positions(idx), 0, "none")

\* race:finish {winner, placements}: data names no race
FinishMsg == Msg("race:finish", NoRace, -1, FALSE, << >>, 0, "none")

\* idx <= lastBroadcastedTick: the tick is dropped as duplicate or old
IsDuplicateTick(idx) == idx <= lastBroadcastedTick

\* Math.max(0, Math.min(tickIndex, matrix.length - 1))
ClampTick(tickIndex) ==
  IF tickIndex > TotalTicks - 1 THEN TotalTicks - 1
  ELSE IF tickIndex < 0 THEN 0 ELSE tickIndex

\* What streamPrecomputedTickAt(tickIndex) broadcasts for the started race:
\* the tick unless it is a duplicate (broadcastTickSafe), then race:finish
\* at the last tick.
StreamTickResult(tickIndex, buf) ==
  LET idx == ClampTick(tickIndex)
      st1 == IF IsDuplicateTick(idx) THEN StartOfHandler
             ELSE Broadcast(DriverTickMsg(idx), buf, StartOfHandler)
  IN IF idx >= TotalTicks - 1 /\ isActive
       THEN Broadcast(FinishMsg, buf, st1) ELSE st1

StreamTickCall(tickIndex, buf) ==
  LET idx == ClampTick(tickIndex)
      dup == IsDuplicateTick(idx)
      finish == idx >= TotalTicks - 1 /\ isActive
  IN /\ Commit(IF ~dup THEN DriverTickMsg(idx)
                ELSE IF finish THEN FinishMsg ELSE NoMsg,
               StreamTickResult(tickIndex, buf))
     /\ lastBroadcastedTick' = (IF dup THEN lastBroadcastedTick ELSE idx)
     /\ isActive' = (isActive /\ ~finish)
     /\ currentTickIndex' = idx
     /\ highTickIndex' = (IF idx > highTickIndex THEN idx ELSE highTickIndex)
     /\ streamed' = (IF dup THEN streamed ELSE Append(streamed, idx))
     /\ finishFrames' = finishFrames + (IF finish THEN 1 ELSE 0)
     /\ persisted' = persisted + (IF finish THEN 1 ELSE 0)
     /\ UNCHANGED << role, signingEnabled, clients, clientPrefs, readyState,
                     peerSeq, busTick, demoted >>

\* streamPrecomputedTickAt called with a started race
StreamTick(tickIndex, buf) ==
  /\ StreamTickCall(tickIndex, buf)
  /\ UNCHANGED cycleVars
  /\ UNCHANGED << running, timerRef, tickCount, statePrecomputed,
                  engineTicks, lastEngineTick >>
  /\ UNCHANGED << syncVars, aliveVars, pureVars >>

\* The race:tick payload the peer leader published for tick t of race r:
\* it names its race and carries the peer's seq, tickTs, protoVer and, when
\* signing is on, the peer's signature.
BusTickMsg(r, t) ==
  Msg("race:tick", r, t, TRUE, Positions(t), peerSeq[r] + 1,
      IF signingEnabled THEN "peer" ELSE "none")

\* A bus frame that is not a race:tick
BusFrameMsg(type, r) == Msg(type, r, -1, FALSE, << >>, 0, "none")

\* edgeSubscriber handler: JSON.parse the bus message and broadcast() it.
\* Frames of one race arrive in increasing tick order, possibly with gaps.
EdgeTick(r, t, buf) ==
  /\ t > busTick[r]
  /\ Commit(BusTickMsg(r, t), Broadcast(BusTickMsg(r, t), buf, StartOfHandler))
  /\ peerSeq' = [peerSeq EXCEPT ![r] = @ + 1]
  /\ busTick' = [busTick EXCEPT ![r] = t]
  /\ UNCHANGED << role, signingEnabled, clients, clientPrefs, readyState,
                  lastBroadcastedTick, isActive, demoted >>
  /\ UNCHANGED cycleVars
  /\ UNCHANGED << engineVars, syncVars, aliveVars, pureVars >>

\* edgeSubscriber handler for a frame that is not a race:tick
EdgeFrame(type, r, buf) ==
  /\ Commit(BusFrameMsg(type, r),
            Broadcast(BusFrameMsg(type, r), buf, StartOfHandler))
  /\ UNCHANGED << role, signingEnabled, clients, clientPrefs, readyState,
                  lastBroadcastedTick, isActive, peerSeq, busTick, demoted >>
  /\ UNCHANGED cycleVars
  /\ UNCHANGED << engineVars, syncVars, aliveVars, pureVars >>

(***************************************************************************)
(* RaceStateMachine (raceScheduler.ts) and the engine calls of its tick()  *)
(***************************************************************************)
Phases == {"idle", "countdown", "race_starting", "race_running",
           "race_finished", "results_showing"}

\* ALLOWED[phase]: the phases transition() accepts from phase
ALLOWED(phase) ==
  CASE phase = "idle" -> {"countdown"}
    [] phase = "countdown" -> {"race_starting"}
    [] phase = "race_starting" -> {"race_running"}
    [] phase = "race_running" -> {"race_finished"}
    [] phase = "race_finished" -> {"results_showing"}
    [] phase = "results_showing" -> {"idle"}

\* SECS
IdleStart == 0
IdleEnd == 26
CountdownStart == 27
CountdownEnd == 29
RaceStart == 30
RaceEnd == 50
FinishedStart == 51
FinishedEnd == 59

\* The machine as one tick() call threads it: `ok` turns FALSE when a call
\* throws, and the steps after it are not taken.
Machine(st, sec) ==
  [ state |-> st, second |-> sec, seed |-> currentSeed,
    counter |-> cycleCounter, pre |-> precomputed, started |-> raceStarted,
    ok |-> TRUE, path |-> << st >>, emits |-> 0 ]

\* A transition() that accepts every phase
TransitionUnguarded(m, next) ==
  IF ~m.ok THEN m
  ELSE [m EXCEPT !.state = next, !.path = Append(@, next), !.emits = @ + 1]

\* transition(next): throws unless ALLOWED[state] includes next
TransitionIn(m, next) ==
  IF ~m.ok THEN m
  ELSE IF next \in ALLOWED(m.state)
    THEN [m EXCEPT !.state = next, !.path = Append(@, next), !.emits = @ + 1]
  ELSE [m EXCEPT !.ok = FALSE]

\* this.state = phase, without the guard of transition()
ForceState(m, phase) ==
  IF ~m.ok THEN m
  ELSE [m EXCEPT !.state = phase, !.path = Append(@, phase), !.emits = @ + 1]

\* RaceState.bumpCycle(): the next cycle number
BumpCycle(m) == [m EXCEPT !.counter = @ + 1]

\* RaceState.setCurrentSeed(`cycle-${n}`)
SetCurrentSeed(m, n) == [m EXCEPT !.seed = n]

\* RaceState.clearCurrentSeed()
ClearCurrentSeed(m) == IF ~m.ok THEN m ELSE [m EXCEPT !.seed = 0]

\* seedPrecomputedRace(): throws 'Active cycle seed not set' without a seed,
\* else precomputes the race of the seed
SeedPrecomputedRace(m) ==
  IF ~m.ok THEN m
  ELSE IF m.seed = 0 THEN [m EXCEPT !.ok = FALSE]
  ELSE [m EXCEPT !.pre = m.seed]

\* startPrecomputedRace(): nothing unless the phase is race_starting; seeds
\* when no race is precomputed, enters race_running, sets currentRace and
\* broadcasts race:start
StartPrecomputedRace(m) ==
  IF m.state # "race_starting" THEN m
  ELSE LET m1 == IF m.pre = 0 THEN SeedPrecomputedRace(m) ELSE m
           m2 == TransitionIn(m1, "race_running")
       IN IF m2.ok THEN [m2 EXCEPT !.started = TRUE] ELSE m2

InRange(sec, a, b) == sec >= a /\ sec <= b

\* tick(), branch of seconds 0..26
TickIdle(m) ==
  IF m.second = CountdownStart /\ m.state = "idle"
    THEN LET m1 == BumpCycle(m)
             m2 == SetCurrentSeed(m1, m1.counter)
             m3 == TransitionIn(m2, "countdown")
         IN SeedPrecomputedRace(m3)
  ELSE IF m.state # "idle" /\ m.second <= IdleEnd
    THEN ForceState(m, "idle")
  ELSE m

\* tick(), branch of seconds 27..29
TickCountdown(m) ==
  LET m1 == IF m.state # "countdown" THEN TransitionIn(m, "countdown") ELSE m
  IN IF m.second = CountdownEnd THEN TransitionIn(m1, "race_starting") ELSE m1

\* tick(), branch of seconds 30..50
TickRace(m) ==
  LET m1 == IF m.second = RaceStart /\ m.state = "race_starting"
              THEN StartPrecomputedRace(m) ELSE m
      m2 == IF ~m1.ok THEN m1
            ELSE IF m1.state = "race_starting"
              THEN TransitionIn(m1, "race_running")
            ELSE IF m1.state # "race_running"
              THEN ForceState(m1, "race_running")
            ELSE m1
  IN IF m2.second = FinishedStart THEN TransitionIn(m2, "race_finished") ELSE m2

\* A branch of seconds 51..59 that leaves the return to idle to the next
\* cycle's first second
TickResultsNoReset(m) ==
  IF m.state = "race_finished"
    THEN TransitionIn(m, "results_showing")
  ELSE IF m.state # "results_showing"
    THEN ForceState(m, "results_showing")
  ELSE m

\* tick(), branch of seconds 51..59
TickResults(m) ==
  LET m1 == IF m.state = "race_finished"
              THEN TransitionIn(m, "results_showing")
            ELSE IF m.state # "results_showing"
              THEN ForceState(m, "results_showing")
            ELSE m
  IN IF m1.second = FinishedEnd
       THEN LET m2 == ClearCurrentSeed(TransitionIn(m1, "idle"))
            IN IF m2.ok THEN [m2 EXCEPT !.second = -1] ELSE m2
     ELSE m1

\* tick(): advance the second, then the branch of its window
TickResult ==
  LET m == Machine(state, (currentSecond + 1) % CYCLE_SECONDS)
  IN IF InRange(m.second, IdleStart, IdleEnd) THEN TickIdle(m)
     ELSE IF InRange(m.second, CountdownStart, CountdownEnd) THEN TickCountdown(m)
     ELSE IF InRange(m.second, RaceStart, RaceEnd) THEN TickRace(m)
     ELSE IF InRange(m.second, FinishedStart, FinishedEnd) THEN TickResults(m)
     ELSE m

\* race:start {raceId, horses} of the race of seed n
StartMsg(n) ==
  Msg("race:start", IF n = 1 THEN "r1" ELSE "r2", -1, FALSE, << >>, 0, "none")

CommitMachine(m) ==
  /\ state' = m.state
  /\ currentSecond' = m.second
  /\ currentSeed' = m.seed
  /\ cycleCounter' = m.counter
  /\ precomputed' = m.pre
  /\ raceStarted' = m.started
  /\ threw' = ~m.ok
  /\ phasePath' = m.path
  /\ stateEvents' = m.emits

\* One call of tick() by the 1-second timer
\* tick() reaches RaceState.setPrecomputedRace: only in the idle window, at
\* second countdownStart, after seedPrecomputedRace returned
SetsStatePrecomputed ==
  LET m == Machine(state, (currentSecond + 1) % CYCLE_SECONDS)
  IN /\ InRange(m.second, IdleStart, IdleEnd)
     /\ m.second = CountdownStart
     /\ m.state = "idle"
     /\ TickIdle(m).ok

Tick ==
  LET m == TickResult
      starts == m.ok /\ m.second = RaceStart /\ state = "race_starting"
  IN /\ CommitMachine(m)
     /\ UNCHANGED ticksOnly
     /\ tickCalls' = (IF ticksOnly THEN (tickCalls + 1) % CYCLE_SECONDS ELSE 0)
     /\ lastCall' = "tick"
     /\ IF starts
          THEN /\ Commit(StartMsg(m.pre),
                         Broadcast(StartMsg(m.pre), [c \in ClientIds |-> 0],
                                   StartOfHandler))
               /\ lastBroadcastedTick' = -1
               /\ isActive' = TRUE
               /\ streamed' = << >>
               /\ finishFrames' = 0
               /\ persisted' = 0
          ELSE /\ NoBroadcast
               /\ UNCHANGED << lastOut, lastSeqSent, keyPosSent,
                               lastBroadcastedTick, isActive, streamed,
                               finishFrames, persisted >>
     /\ statePrecomputed' = (statePrecomputed \/ SetsStatePrecomputed)
     /\ IF m.pre # precomputed
          THEN currentTickIndex' = -1 /\ highTickIndex' = -1
          ELSE UNCHANGED << currentTickIndex, highTickIndex >>
     /\ UNCHANGED << role, signingEnabled, clients, clientPrefs, readyState,
                     peerSeq, busTick, demoted >>
     /\ UNCHANGED << running, timerRef, tickCount, engineTicks,
                     lastEngineTick >>
     /\ UNCHANGED << syncVars, aliveVars, pureVars >>

\* One call of transition(next) from outside tick()
Transition(next) ==
  /\ CommitMachine(TransitionIn(Machine(state, currentSecond), next))
  /\ ticksOnly' = FALSE
  /\ tickCalls' = 0
  /\ lastCall' = "transition"
  /\ NoBroadcast
  /\ UNCHANGED << role, signingEnabled, clients, clientPrefs, readyState,
                  lastBroadcastedTick, isActive, peerSeq, busTick, lastOut,
                  lastSeqSent, keyPosSent, demoted >>
  /\ UNCHANGED << engineVars, syncVars, aliveVars, pureVars >>

(***************************************************************************)
(* The cycle state machine at boot, and while a race runs                  *)
(***************************************************************************)
\* new RaceStateMachine(); the seed is unset, or restart recovery has
\* restored the seed of the persisted race
CycleAtBoot ==
  /\ state = "idle"
  /\ currentSecond = 0
  /\ currentSeed \in {0, 1}
  /\ cycleCounter = 0
  /\ precomputed = 0
  /\ raceStarted = FALSE
  /\ threw = FALSE
  /\ phasePath = << "idle" >>
  /\ ticksOnly = TRUE
  /\ tickCalls = 0
  /\ stateEvents = 0
  /\ lastCall = "boot"

CycleWithRaceStarted ==
  /\ state = "race_running"
  /\ currentSecond = 30
  /\ currentSeed = 1
  /\ cycleCounter = 0
  /\ precomputed = 1
  /\ raceStarted = TRUE
  /\ threw = FALSE
  /\ phasePath = << "race_starting", "race_running" >>
  /\ ticksOnly = TRUE
  /\ tickCalls = 0
  /\ stateEvents = 0
  /\ lastCall = "boot"

(***************************************************************************)
(* The engine loop (engineLoop.ts): start(), stop(), reset() and the timer *)
(* callback loop(), which emits engineTick and calls                       *)
(* streamPrecomputedTickAt(tickCount).                                     *)
(***************************************************************************)
\* A start() that keeps the tick count of the previous run
StartKeepsTickCount ==
  /\ ~running
  /\ running' = TRUE
  /\ timerRef' = TRUE
  /\ engineTicks' = 0
  /\ UNCHANGED << tickCount, statePrecomputed, currentTickIndex,
                  lastEngineTick, streamed, finishFrames, persisted,
                  highTickIndex >>
  /\ UNCHANGED << wsVars, cycleVars, syncVars, aliveVars, pureVars >>

\* start(): nothing when already running
StartEngineLoop ==
  /\ ~running
  /\ running' = TRUE
  /\ tickCount' = 0
  /\ timerRef' = TRUE
  /\ engineTicks' = 0
  /\ UNCHANGED << statePrecomputed, currentTickIndex, lastEngineTick,
                  streamed, finishFrames, persisted, highTickIndex >>
  /\ UNCHANGED << wsVars, cycleVars, syncVars, aliveVars >>

\* start() with the clock left out
Start ==
  /\ StartEngineLoop
  /\ UNCHANGED pureVars

\* stop(): nothing when not running; clears the pending timer
Stop ==
  /\ running
  /\ running' = FALSE
  /\ timerRef' = FALSE
  /\ UNCHANGED << tickCount, statePrecomputed, currentTickIndex, engineTicks,
                  lastEngineTick, streamed, finishFrames, persisted,
                  highTickIndex >>
  /\ UNCHANGED << wsVars, cycleVars, syncVars, aliveVars, pureVars >>

\* reset(): stop(), then tickCount = 0
Reset ==
  /\ running' = FALSE
  /\ timerRef' = (IF running THEN FALSE ELSE timerRef)
  /\ tickCount' = 0
  /\ UNCHANGED << statePrecomputed, currentTickIndex, engineTicks,
                  lastEngineTick, streamed, finishFrames, persisted,
                  highTickIndex >>
  /\ UNCHANGED << wsVars, cycleVars, syncVars, aliveVars, pureVars >>

\* the loop's own stop test after streaming tickCount
LoopStops == statePrecomputed /\ tickCount >= TotalTicks - 1

\* loop(): the timer callback
LoopBody(buf) ==
  /\ timerRef
  /\ IF ~running
       THEN /\ timerRef' = FALSE
            /\ UNCHANGED << running, tickCount, engineTicks, lastEngineTick,
                            currentTickIndex, streamed, finishFrames,
                            persisted, highTickIndex >>
            /\ UNCHANGED wsVars
       ELSE /\ tickCount < MaxEngineTicks
            /\ engineTicks' = engineTicks + 1
            /\ lastEngineTick' = tickCount
            /\ IF precomputed # 0 /\ raceStarted
                 THEN StreamTickCall(tickCount, buf)
                 ELSE /\ NoBroadcast
                      /\ UNCHANGED << role, signingEnabled, clients,
                                      clientPrefs, readyState,
                                      lastBroadcastedTick, isActive, peerSeq,
                                      busTick, lastOut, lastSeqSent,
                                      keyPosSent, demoted >>
                      /\ UNCHANGED << currentTickIndex, streamed,
                                      finishFrames, persisted, highTickIndex >>
            /\ IF LoopStops
                 THEN running' = FALSE /\ timerRef' = FALSE
                                      /\ UNCHANGED tickCount
                 ELSE tickCount' = tickCount + 1
                        /\ UNCHANGED << running, timerRef >>
  /\ UNCHANGED statePrecomputed
  /\ UNCHANGED << cycleVars, syncVars, aliveVars >>

\* loop() with the clock left out
Loop(buf) ==
  /\ LoopBody(buf)
  /\ UNCHANGED pureVars

(***************************************************************************)
(* Catch-up: handleSyncRequest (wsServer.ts) answers a subscriber's        *)
(* sync:request with a window of the race's tick snapshot.                 *)
(***************************************************************************)
\* Date.now() at boot: an epoch time, far above the cooldown
BootTime == 5 * SYNC_COOLDOWN_MS

\* time between two moments at which a request may arrive: the cooldown,
\* 1 ms less, 1 ms more
ClockSteps == {SYNC_COOLDOWN_MS - 1, SYNC_COOLDOWN_MS, SYNC_COOLDOWN_MS + 1}

\* msg.fromTick is not a number
NoFromTick == -1000

\* number of ticks of the race whose snapshot is served
SnapshotLen == MAX_CATCHUP_TICKS + ExtraTicks

\* msg.fromTick: absent, negative, zero, inside a window, beyond every index
FromTicks == {NoFromTick, -1, 0, DEFAULT_CATCHUP_TICKS, SnapshotLen}

Max(a, b) == IF a >= b THEN a ELSE b
Min(a, b) == IF a <= b THEN a ELSE b

\* id of the race seeded from cycle seed n
RaceOfSeed(n) == IF n = 1 THEN "r1" ELSE "r2"

\* activeRaces.has(raceId): the record set by seedPrecomputedRace
HasActiveRace(raceId) == precomputed # 0 /\ raceId = RaceOfSeed(precomputed)

\* a rate limit that also refuses a request exactly one cooldown later
RateLimitedAtCooldown(c) == nowMs - lastSyncByClient[c] <= SYNC_COOLDOWN_MS

\* now - last < SYNC_COOLDOWN_MS
RateLimited(c) == nowMs - lastSyncByClient[c] < SYNC_COOLDOWN_MS

\* startIndex of the window
StartIndex(fromTick, cti) ==
  IF fromTick # NoFromTick
    THEN Max(Max(0, cti - MAX_CATCHUP_TICKS), Min(fromTick, cti))
    ELSE Max(0, cti - DEFAULT_CATCHUP_TICKS)

\* rec.ticks.slice(from, to), as the indices of the ticks it returns
Slice(from, to) ==
  LET end == Min(to, SnapshotLen)
  IN IF from >= end THEN << >> ELSE [i \in 1 .. end - from |-> from + i - 1]

ErrorFrame == [type |-> "error"]

CatchupFrame(raceId, startIndex, ticks, cti) ==
  [type |-> "race:catchup", raceId |-> raceId, startIndex |-> startIndex,
   ticks |-> ticks, currentTickIndex |-> cti]

SyncCompleteFrame(raceId, cti) ==
  [type |-> "race:sync-complete", raceId |-> raceId, currentTickIndex |-> cti]

\* handleSyncRequest: the frames sent and the timestamp kept for the client
HandleSyncRequest(c, raceId, fromTick) ==
  IF RateLimited(c)
    THEN [frames |-> << >>, last |-> lastSyncByClient[c]]
  ELSE IF raceId = NoRace \/ ~HasActiveRace(raceId)
    THEN [frames |-> << ErrorFrame >>, last |-> nowMs]
  ELSE LET startIndex == StartIndex(fromTick, currentTickIndex)
       IN [frames |-> << CatchupFrame(raceId, startIndex,
                                      Slice(startIndex, currentTickIndex + 1),
                                      currentTickIndex),
                         SyncCompleteFrame(raceId, currentTickIndex) >>,
           last |-> nowMs]

\* a sync:request message arrives on the socket of c
SyncRequest(c, raceId, fromTick) ==
  LET r == HandleSyncRequest(c, raceId, fromTick)
      answered == r.frames # << >>
  IN /\ InClients(c)
     /\ syncReply' = r.frames
     /\ lastSyncByClient' = [lastSyncByClient EXCEPT ![c] = r.last]
     /\ lastAnswerAt' = [lastAnswerAt EXCEPT
                           ![c] = IF answered THEN nowMs ELSE @]
     /\ answerGap' = [answerGap EXCEPT
                        ![c] = IF answered /\ lastAnswerAt[c] >= 0
                                 THEN nowMs - lastAnswerAt[c] ELSE @]
     /\ UNCHANGED nowMs
     /\ UNCHANGED << wsVars, cycleVars, engineVars, aliveVars, pureVars >>

\* time passes
AdvanceClock(d) ==
  /\ nowMs + d <= BootTime + MaxClockSteps * (SYNC_COOLDOWN_MS + 1)
  /\ nowMs' = nowMs + d
  /\ UNCHANGED << lastSyncByClient, syncReply, lastAnswerAt, answerGap >>
  /\ UNCHANGED << wsVars, cycleVars, engineVars, aliveVars, pureVars >>

(***************************************************************************)
(* Keepalive (wsServer.ts init): every WS_PING_INTERVAL_MS the sweep       *)
(* terminates the sockets that have not answered the previous ping and     *)
(* pings the others; a pong marks the socket alive.                        *)
(***************************************************************************)
\* a pong that is not recorded
PongLost(c) ==
  /\ InClients(c)
  /\ readyState[c] = 1
  /\ pongSince' = [pongSince EXCEPT ![c] = TRUE]
  /\ lastOut' = NoOut
  /\ NoBroadcast
  /\ UNCHANGED << clientAlive, atSweep, terminated, sweepParity >>
  /\ UNCHANGED << role, signingEnabled, clients, clientPrefs, readyState,
                  lastBroadcastedTick, isActive, peerSeq, busTick, lastSeqSent,
                  keyPosSent, demoted >>
  /\ UNCHANGED << cycleVars, engineVars, syncVars, pureVars >>

\* ws.on('pong')
Pong(c) ==
  /\ InClients(c)
  /\ readyState[c] = 1
  /\ clientAlive' = [clientAlive EXCEPT ![c] = TRUE]
  /\ pongSince' = [pongSince EXCEPT ![c] = TRUE]
  /\ lastOut' = NoOut
  /\ NoBroadcast
  /\ UNCHANGED << atSweep, terminated, sweepParity >>
  /\ UNCHANGED << role, signingEnabled, clients, clientPrefs, readyState,
                  lastBroadcastedTick, isActive, peerSeq, busTick, lastSeqSent,
                  keyPosSent, demoted >>
  /\ UNCHANGED << cycleVars, engineVars, syncVars, pureVars >>

\* the sockets the sweep terminates: clientAlive is false
Dead(c) == InClients(c) /\ ~clientAlive[c]

\* the setInterval callback: one pass over the set
Sweep ==
  /\ clients' = SelectSeq(clients, LAMBDA c : clientAlive[c])
  /\ readyState' = [c \in ClientIds |-> IF Dead(c) THEN 3 ELSE readyState[c]]
  /\ clientAlive' = [c \in ClientIds |->
                       IF InClients(c) /\ clientAlive[c] THEN FALSE
                       ELSE clientAlive[c]]
  /\ terminated' = [c \in ClientIds |-> terminated[c] \/ Dead(c)]
  /\ atSweep' = [c \in ClientIds |-> InClients(c) /\ clientAlive[c]]
  /\ pongSince' = [c \in ClientIds |-> FALSE]
  /\ sweepParity' = ~sweepParity
  /\ lastSeqSent' = IF Dead(Observed) THEN [r \in Races |-> 0] ELSE lastSeqSent
  /\ keyPosSent' = IF Dead(Observed) THEN [r \in Races |-> << >>] ELSE keyPosSent
  /\ lastOut' = NoOut
  /\ NoBroadcast
  /\ UNCHANGED << role, signingEnabled, clientPrefs, lastBroadcastedTick,
                  isActive, peerSeq, busTick, demoted >>
  /\ UNCHANGED << cycleVars, engineVars, syncVars, pureVars >>

(***************************************************************************)
(* Race precomputation: applyEventEffects (race/events/effects.ts) over a  *)
(* base path matrix and an event timeline, and determineWinner             *)
(* (race/winner.ts) over the matrix it builds.  One step of the model is   *)
(* one iteration of the per-tick loop; the timeline is an input, its       *)
(* events are chosen tick by tick, at most one at a tick.                  *)
(***************************************************************************)
\* baseHorsePaths[0].map(h => h.horseId), ids as generateHorseSeeds makes them
Horses == << "horse-0", "horse-1" >>
HorseSet == {Horses[i] : i \in 1 .. Len(Horses)}
HorseIdx(h) == CHOOSE i \in 1 .. Len(Horses) : Horses[i] = h

\* per-tick advance of a horse's base path
BaseSteps == {FinishLine \div 4, FinishLine \div 2, FinishLine}

\* baseHorsePaths[t][h].position: advances to the finish line and stays
BasePosition(t, h) == Min(FinishLine, baseStep[h] * t)

\* OFFSETS
hookShotBackward == 15
rocketBoostForward == 20
chainStunDuration == 20

\* D in the event catalog
DShort == 20
DMedium == 60
DLong == 120

\* Number.POSITIVE_INFINITY as the end of a window
Forever == 1000000

CHAIN_STUN_ID == "chain_stun"

NEGATIVE_EVENT_IDS == {"hook_shot", "bomb_throw", "ufo_abduction", "chain_reaction"}

\* the catalog's events that applyEventEffects gives an effect
EventIds == {"hook_shot", "bomb_throw", "position_swap", "rocket_boost",
             "ufo_abduction", "chain_reaction", "luck_charm"}

\* def.durationTicks
DurationTicks(id) ==
  CASE id = "hook_shot" -> DShort
    [] id = "bomb_throw" -> DMedium
    [] id = "position_swap" -> DShort
    [] id = "rocket_boost" -> DMedium
    [] id = "ufo_abduction" -> DShort
    [] id = "chain_reaction" -> DMedium
    [] id = "luck_charm" -> DLong
    [] id = "temporary_shield" -> DShort

\* def.affectsMultipleHorses
AffectsMultipleHorses(id) == id = "bomb_throw"

\* an event instance: its id and the index pickIndex() hashes its instanceId to
EventInstances == [id : EventIds, pick : 1 .. Len(Horses)]
NoEvent == [id |-> "none", pick |-> 0]

NoSwap == [withHorseId |-> "none", startTick |-> 0, endTick |-> 0]

\* stunUntil has no entry
NoStun == -1

\* the loop's maps
LoopMaps ==
  [stunUntil |-> stunUntil, removed |-> removed,
   windows |-> activeEventsWindows, swaps |-> activeSwaps]

MarkActive(w, h, id, startTick, endTick) ==
  [w EXCEPT ![h] = @ \cup {[id |-> id, startTick |-> startTick, endTick |-> endTick]}]

IsEventActive(w, h, id, t) ==
  \E x \in w[h] : x.id = id /\ t >= x.startTick /\ t < x.endTick

\* isEventActive(..., onlyStartAtTick = true)
StartsAtTick(w, h, id, t) ==
  \E x \in w[h] : x.id = id /\ x.startTick = t

\* rerouteIfLucky
RerouteIfLucky(L, i, t) ==
  IF ~IsEventActive(L.windows, Horses[i], "luck_charm", t) THEN i
  ELSE LET n == Len(Horses)
           next(step) == ((i - 1 + step) % n) + 1
           free == {step \in 1 .. n - 1 : ~L.removed[Horses[next(step)]]}
       IN IF free = {} THEN i
          ELSE next(CHOOSE s \in free : \A s2 \in free : s <= s2)

\* pickTwoDistinct: a from the hash, b the hash over one horse fewer
PickTwoDistinct(pick) ==
  LET a == pick - 1
      bRaw == 0
      b == IF bRaw >= a THEN bRaw + 1 ELSE bRaw
  IN << a + 1, b + 1 >>

\* applyEffect
ApplyEffect(L, id, h, t) ==
  LET endTick == t + DurationTicks(id)
      marked == [L EXCEPT !.windows = MarkActive(@, h, id, t, endTick)]
  IN IF id = "bomb_throw"
       THEN [marked EXCEPT !.stunUntil[h] =
               Max(IF @ = NoStun THEN t ELSE @, endTick)]
       ELSE marked

RECURSIVE ApplyEffectToAll(_, _, _, _)
ApplyEffectToAll(L, id, i, t) ==
  IF i > Len(Horses) THEN L
  ELSE ApplyEffectToAll(IF L.removed[Horses[i]] THEN L
                        ELSE ApplyEffect(L, id, Horses[i], t), id, i + 1, t)

\* chain_reaction: one horse of the loop over baseAtTick
ChainStun(L, h, t) ==
  LET endTick == t + chainStunDuration
  IN [L EXCEPT !.stunUntil[h] = Max(IF @ = NoStun THEN t ELSE @, endTick),
               !.windows = MarkActive(
                             MarkActive(@, h, CHAIN_STUN_ID, t, endTick),
                             h, "chain_reaction", t,
                             t + DurationTicks("chain_reaction"))]

RECURSIVE ChainStunAll(_, _, _)
ChainStunAll(L, i, t) ==
  IF i > Len(Horses) THEN L
  ELSE ChainStunAll(IF L.removed[Horses[i]] THEN L
                    ELSE ChainStun(L, Horses[i], t), i + 1, t)

\* the body of `for (const ev of eventsHere)` for one event
ApplyEvent(L, ev, t) ==
  CASE ev.id = "none" -> L
    [] ev.id = "position_swap" ->
         LET ab == PickTwoDistinct(ev.pick)
             ha == Horses[ab[1]]
             hb == Horses[ab[2]]
             endTick == t + DurationTicks(ev.id)
         IN IF Len(Horses) < 2 \/ L.removed[ha] \/ L.removed[hb] THEN L
            ELSE [L EXCEPT
                    !.swaps = [@ EXCEPT
                      ![ha] = [withHorseId |-> hb, startTick |-> t, endTick |-> endTick],
                      ![hb] = [withHorseId |-> ha, startTick |-> t, endTick |-> endTick]],
                    !.windows = MarkActive(MarkActive(@, ha, ev.id, t, endTick),
                                           hb, ev.id, t, endTick)]
    [] ev.id = "ufo_abduction" ->
         LET h == Horses[RerouteIfLucky(L, ev.pick, t)]
         IN [L EXCEPT !.removed[h] = TRUE,
                      !.windows = MarkActive(@, h, ev.id, t, Forever)]
    [] ev.id = "chain_reaction" -> ChainStunAll(L, 1, t)
    [] OTHER ->
         IF AffectsMultipleHorses(ev.id) THEN ApplyEffectToAll(L, ev.id, 1, t)
         ELSE LET ix == IF ev.id \in NEGATIVE_EVENT_IDS
                          THEN RerouteIfLucky(L, ev.pick, t) ELSE ev.pick
                  h == Horses[ix]
              IN IF L.removed[h] THEN L ELSE ApplyEffect(L, ev.id, h, t)

Stunned(L, h, t) == L.stunUntil[h] > t

\* prevFinal + moveDelta + offset of a horse, floored at 0
CandidatePos(L, P, h, t) ==
  LET baseDelta == IF t > 0 THEN BasePosition(t, h) - BasePosition(t - 1, h) ELSE 0
      moveDelta == IF Stunned(L, h, t) THEN 0 ELSE baseDelta
      offset == (IF StartsAtTick(L.windows, h, "hook_shot", t)
                   THEN 0 - hookShotBackward ELSE 0)
                + (IF StartsAtTick(L.windows, h, "rocket_boost", t)
                     THEN rocketBoostForward ELSE 0)
  IN Max(0, P[h] + moveDelta + offset)

\* FinalState with a removed horse taking the candidate position
FinalStateRemovedMoves(L, P, h, t) ==
  [position |-> CandidatePos(L, P, h, t),
   lane |-> HorseIdx(h) - 1,
   speed |-> IF L.removed[h] THEN 0 ELSE baseStep[h],
   isStunned |-> Stunned(L, h, t),
   isRemoved |-> L.removed[h],
   activeEvents |-> {x.id : x \in {y \in L.windows[h] :
                                      t >= y.startTick /\ t < y.endTick}}]

\* finalTickStates[i] for one horse; P is prevFinalPosition as the loop over
\* the horses has updated it so far
FinalState(L, P, h, t) ==
  LET swap == L.swaps[h]
      swapped == swap # NoSwap /\ t >= swap.startTick /\ t < swap.endTick
      candidatePos == IF swapped THEN CandidatePos(L, P, swap.withHorseId, t)
                      ELSE CandidatePos(L, P, h, t)
      wasRemoved == L.removed[h]
  IN [position |-> IF wasRemoved THEN P[h] ELSE candidatePos,
      lane |-> IF swapped THEN HorseIdx(swap.withHorseId) - 1
               ELSE HorseIdx(h) - 1,
      speed |-> IF wasRemoved THEN 0 ELSE baseStep[h],
      isStunned |-> Stunned(L, h, t),
      isRemoved |-> wasRemoved,
      activeEvents |-> {x.id : x \in {y \in L.windows[h] :
                                         t >= y.startTick /\ t < y.endTick}}]

\* `for (let i = 0; i < baseAtTick.length; i++)`: the rows and
\* prevFinalPosition after the horses from i on
RECURSIVE RenderFrom(_, _, _, _, _)
RenderFrom(i, L, P, rows, t) ==
  IF i > Len(Horses) THEN [rows |-> rows, prev |-> P]
  ELSE LET h == Horses[i]
           s == FinalState(L, P, h, t)
       IN RenderFrom(i + 1, L, [P EXCEPT ![h] = s.position],
                     [rows EXCEPT ![h] = s], t)

\* activeSwaps after the tick: windows that have ended are deleted
SwapsAfter(swaps, t) ==
  [h \in HorseSet |-> IF swaps[h] # NoSwap /\ t >= swaps[h].endTick
                        THEN NoSwap ELSE swaps[h]]

\* determineWinner: the horses crossing at a tick
Crossing(rows) ==
  {h \in HorseSet : rows[h].position >= FinishLine /\ ~rows[h].isRemoved}

\* crossingIds.sort()[0]: ids of one length compare as their indices do
SmallestId(ids) == CHOOSE h \in ids : \A g \in ids : HorseIdx(h) <= HorseIdx(g)
LargestId(ids) == CHOOSE h \in ids : \A g \in ids : HorseIdx(h) >= HorseIdx(g)

NoWinner == "null"

\* WinnerOf with the ids sorted the other way
WinnerOfLargest(ids) == IF ids = {} THEN NoWinner ELSE LargestId(ids)

\* determineWinner(...)?.horseId
WinnerOf(ids) == IF ids = {} THEN NoWinner ELSE SmallestId(ids)

EmptyRow ==
  [h \in HorseSet |-> [position |-> 0, lane |-> HorseIdx(h) - 1, speed |-> 0,
                       isStunned |-> FALSE,
                       isRemoved |-> FALSE, activeEvents |-> {}]]

\* one iteration of `for (let tick = 0; tick < totalTicks; tick++)` with the
\* event the timeline holds at the tick, and of determineWinner's scan
\* one iteration of `for (let tick = 0; tick < totalTicks; tick++)` with
\* the event the timeline holds at the tick
TickBody(ev) ==
  /\ effTick < NumTicks
  /\ LET L == ApplyEvent(LoopMaps, ev, effTick)
         R == RenderFrom(1, L, prevFinalPosition, resultRow, effTick)
     IN /\ stunUntil' = L.stunUntil
        /\ removed' = L.removed
        /\ activeEventsWindows' = L.windows
        /\ activeSwaps' = SwapsAfter(L.swaps, effTick)
        /\ prevFinalPosition' = R.prev
        /\ resultRow' = R.rows
        /\ resultPrev' = resultRow
        /\ firstCrossTick' = IF firstCrossTick < 0 /\ Crossing(R.rows) # {}
                               THEN effTick ELSE firstCrossTick
        /\ crossingIds' = IF firstCrossTick < 0 THEN Crossing(R.rows)
                          ELSE crossingIds
        /\ removedAt' = [h \in HorseSet |->
                           IF ev.id = "ufo_abduction" /\ L.removed[h]
                              /\ ~removed[h]
                             THEN effTick ELSE removedAt[h]]
        /\ chainAt' = [h \in HorseSet |->
                         IF ev.id = "chain_reaction" /\ ~removed[h]
                           THEN chainAt[h] \cup {effTick} ELSE chainAt[h]]
        /\ reachedAt' = [h \in HorseSet |->
                           IF reachedAt[h] < 0 /\ ~R.rows[h].isRemoved
                              /\ R.rows[h].position >= FinishLine
                             THEN effTick ELSE reachedAt[h]]
  /\ eventsApplied' = IF ev = NoEvent THEN eventsApplied ELSE eventsApplied + 1
  /\ effTick' = effTick + 1
  /\ UNCHANGED baseStep

\* an iteration of the loop for a timeline of at most MaxEvents events, all
\* within the first ticks
ApplyTick(ev) ==
  /\ ev # NoEvent => eventsApplied < MaxEvents /\ effTick <= MaxEvents
  /\ TickBody(ev)
  /\ UNCHANGED << wsVars, cycleVars, engineVars, syncVars, aliveVars,
                  timelineVars, restVars >>

\* applyEventEffects before its loop, for base paths of the given steps
EffectsStart(steps) ==
  /\ baseStep = steps
  /\ effTick = 0
  /\ stunUntil = [h \in HorseSet |-> NoStun]
  /\ removed = [h \in HorseSet |-> FALSE]
  /\ activeEventsWindows = [h \in HorseSet |-> {}]
  /\ activeSwaps = [h \in HorseSet |-> NoSwap]
  /\ prevFinalPosition = [h \in HorseSet |-> BasePosition(0, h)]
  /\ resultRow = EmptyRow
  /\ resultPrev = EmptyRow
  /\ firstCrossTick = -1
  /\ crossingIds = {}
  /\ eventsApplied = 0
  /\ removedAt = [h \in HorseSet |-> -1]
  /\ chainAt = [h \in HorseSet |-> {}]
  /\ reachedAt = [h \in HorseSet |-> -1]


(***************************************************************************)
(* generateEventTimeline (race/events/timeline.ts): the candidates, one    *)
(* per occurrence of each catalog entry at a tick drawn from the seeded    *)
(* generator, are sorted and then placed one by one.  One step of the      *)
(* model is one iteration of the placement loop.                           *)
(***************************************************************************)
MIN_SPACING_TICKS == 15

\* D.concLow, D.concHigh in the event catalog
concLow == 1
concHigh == 3

\* PACING_CURVE[phase][category]
PACING_CURVE(phase, category) ==
  CASE phase = "early" ->
         (CASE category = "powerup" -> 3 [] category = "combat" -> 1
            [] category = "environmental" -> 1 [] category = "chaos" -> 0)
    [] phase = "mid" ->
         (CASE category = "powerup" -> 2 [] category = "combat" -> 2
            [] category = "environmental" -> 1 [] category = "chaos" -> 1)
    [] phase = "final" ->
         (CASE category = "powerup" -> 1 [] category = "combat" -> 3
            [] category = "environmental" -> 2 [] category = "chaos" -> 3)

\* getRacePhaseForTick with DEFAULT_PHASE_PERCENTS 0.3 and 0.7
RacePhaseForTick(t, raceDurationTicks) ==
  LET total == Max(1, raceDurationTicks)
      earlyEnd == Max(0, ((total * 3) \div 10) - 1)
      midEnd == Max(earlyEnd, ((total * 7) \div 10) - 1)
      clamped == Max(0, Min(t, raceDurationTicks - 1))
  IN IF clamped <= earlyEnd THEN "early"
     ELSE IF clamped <= midEnd THEN "mid"
     ELSE "final"

\* CATEGORY_NORMALIZATION
NormalizeCategory(cat) == IF cat = "chaos/meta" THEN "chaos" ELSE cat

\* weightForCandidate(...).weight with rampMode 'none'
WeightForCandidate(category, t, raceDurationTicks) ==
  PACING_CURVE(RacePhaseForTick(t, raceDurationTicks), NormalizeCategory(category))

\* the ids of the catalogs given, in catalog order
CatalogIds == << "hook_shot", "temporary_shield" >>
CatalogIdSet == {CatalogIds[i] : i \in 1 .. Len(CatalogIds)}

\* the catalogs given: hook_shot is a combat event, the second entry a
\* powerup or a chaos event, each entry conflicting with any of the ids,
\* maxOccurrencesPerRace MaxOccurrences for both
Catalogs ==
  [category : {[id \in CatalogIdSet |->
                  IF id = "hook_shot" THEN "combat" ELSE c] :
                 c \in {"powerup", "chaos/meta"}},
   maxConcurrent : {[id \in CatalogIdSet |->
                       IF id = "hook_shot" THEN concHigh ELSE concLow]},
   conflictsWith : [CatalogIdSet -> SUBSET CatalogIdSet]]

\* the ticks the generator draws for the candidates
CandidateTicks == {0, MIN_SPACING_TICKS - 1, MIN_SPACING_TICKS}

\* candidates.length: maxOccurrencesPerRace candidates per catalog entry
NumCandidates == Len(CatalogIds) * MaxOccurrences

\* step 1: the candidate of position k (order k - 1) in insertion order
CandidateAt(cat, ticks, k) ==
  LET id == CatalogIds[((k - 1) \div MaxOccurrences) + 1]
  IN [id |-> id, tickIndex |-> ticks[k], order |-> k - 1,
      occ |-> (k - 1) % MaxOccurrences,
      weight |-> WeightForCandidate(cat.category[id], ticks[k], NumTicks)]

\* the comparator of candidates.sort
SortsBefore(a, b) ==
  \/ a.tickIndex < b.tickIndex
  \/ /\ a.tickIndex = b.tickIndex
     /\ \/ a.weight > b.weight
        \/ a.weight = b.weight /\ a.order < b.order

\* step 2: candidates.sort(...)
SortedCandidates(cat, ticks) ==
  LET all == {CandidateAt(cat, ticks, k) : k \in 1 .. NumCandidates}
  IN [i \in 1 .. NumCandidates |->
        CHOOSE c \in all : Cardinality({d \in all : SortsBefore(d, c)}) = i - 1]

\* a spacing test that lets a candidate through one tick early
TooCloseByOne(c, lastTick) ==
  lastTick # -1 /\ c.tickIndex - lastTick < MIN_SPACING_TICKS - 1

\* lastTick !== undefined && c.tickIndex - lastTick < MIN_SPACING_TICKS
TooClose(c, lastTick) ==
  lastTick # -1 /\ c.tickIndex - lastTick < MIN_SPACING_TICKS

\* a conflict test that reads the candidate's own list only
ConflictOneWay(c, atTick) ==
  \E i \in 1 .. Len(atTick) : atTick[i].id \in catalog.conflictsWith[c.id]

\* atTick.some(e => c.def.conflictsWith.includes(e.id) ||
\*                  conflictMap.get(e.id).includes(c.id))
Conflict(c, atTick) ==
  \E i \in 1 .. Len(atTick) :
    \/ atTick[i].id \in catalog.conflictsWith[c.id]
    \/ c.id \in catalog.conflictsWith[atTick[i].id]

SameIdCount(c, atTick) ==
  Cardinality({i \in 1 .. Len(atTick) : atTick[i].id = c.id})

\* a placement loop that tests neither the spacing nor maxConcurrent
SkippedUncapped(c) ==
  \/ c.weight <= 0
  \/ Conflict(c, placed[c.tickIndex])

\* the candidate is skipped by the placement loop
Skipped(c) ==
  \/ c.weight <= 0
  \/ TooClose(c, lastPlacedById[c.id])
  \/ SameIdCount(c, placed[c.tickIndex]) >= catalog.maxConcurrent[c.id]
  \/ Conflict(c, placed[c.tickIndex])

\* one iteration of `for (const c of candidates)`
Place ==
  /\ nextCandidate <= Len(candidates)
  /\ LET c == candidates[nextCandidate]
     IN IF Skipped(c)
          THEN UNCHANGED << placed, lastPlacedById >>
          ELSE /\ placed' = [placed EXCEPT ![c.tickIndex] =
                               Append(@, [id |-> c.id, tickIndex |-> c.tickIndex,
                                          occ |-> c.occ])]
               /\ lastPlacedById' = [lastPlacedById EXCEPT ![c.id] = c.tickIndex]
  /\ nextCandidate' = nextCandidate + 1
  /\ UNCHANGED << catalog, candidates >>
  /\ UNCHANGED << wsVars, cycleVars, engineVars, syncVars, aliveVars,
                  effectsVars, restVars >>

\* generateEventTimeline before its placement loop
TimelineStart(cat, ticks) ==
  /\ catalog = cat
  /\ candidates = SortedCandidates(cat, ticks)
  /\ nextCandidate = 1
  /\ placed = [t \in 0 .. NumTicks - 1 |-> << >>]
  /\ lastPlacedById = [id \in CatalogIdSet |-> -1]

\* generateEventTimeline is not running
TimelineIdle ==
  /\ catalog = [category |-> [id \in CatalogIdSet |-> "combat"],
                maxConcurrent |-> [id \in CatalogIdSet |-> concLow],
                conflictsWith |-> [id \in CatalogIdSet |-> {}]]
  /\ candidates = << >>
  /\ nextCandidate = 1
  /\ placed = [t \in 0 .. NumTicks - 1 |-> << >>]
  /\ lastPlacedById = [id \in CatalogIdSet |-> -1]

(***************************************************************************)
(* seedPrecomputedRace: the precompute pipeline for the cycle seed.  The   *)
(* generator's draws are numbers of 0 .. RngMod - 1 (the draw of the code  *)
(* is that number over RngMod); one step of the model is the part up to    *)
(* the placement loop, one iteration of the placement loop, one tick of    *)
(* applyEventEffects, or the part after the last tick.                     *)
(***************************************************************************)
MaxSeed == 7
Seeds == 0 .. MaxSeed
RngMod == 16
MaxSeedCalls == 2

\* a generator seeded with the seed and the number of precomputations the
\* process has recorded
RngSeedFromCalls(seed) == (seed + precomputeCalls) % RngMod

\* makeMulberry32: `let t = seed >>> 0`
RngSeed(seed) == seed % RngMod

\* makeMulberry32: the n-th draw of the generator made from the seed
Mulberry32(seed, n) ==
  LET t == (RngSeed(seed) + n * 7) % RngMod
      r == (t * 5 + (t \div 4)) % RngMod
  IN (r + (r \div 8)) % RngMod

\* hashStringToInt of the key `${seed}|${eventId}|${tickIndex}|${occ}`
HashStringToInt(seed, id, t, occ) ==
  (seed * 3 + (IF id = "hook_shot" THEN 1 ELSE 2) + t * 5 + occ * 7) % RngMod

\* pickIndex(instance, count)
PickIndex(seed, inst) ==
  (HashStringToInt(seed, inst.id, inst.tickIndex, inst.occ) % Len(Horses)) + 1

\* generateHorseSeeds: baseSpeed of the i-th horse, three draws per horse
HorseStep(seed, i) ==
  LET r == Mulberry32(seed, 3 * (i - 1) + 1)
  IN CASE r * 3 < RngMod -> FinishLine \div 4
       [] r * 3 < 2 * RngMod -> FinishLine \div 2
       [] OTHER -> FinishLine

HorseSteps(seed) == [h \in HorseSet |-> HorseStep(seed, HorseIdx(h))]

\* EVENT_CATALOG: the entries of CatalogIds
EVENT_CATALOG ==
  [category |-> [id \in CatalogIdSet |->
                   IF id = "hook_shot" THEN "combat" ELSE "powerup"],
   maxConcurrent |-> [id \in CatalogIdSet |-> concHigh],
   conflictsWith |-> [id \in CatalogIdSet |->
                        IF id = "hook_shot" THEN {"temporary_shield"} ELSE {}]]

\* generateEventTimeline step 1: tickIndex of the k-th candidate
DrawnTicks(seed) ==
  [k \in 1 .. NumCandidates |->
     Min(NumTicks - 1, Max(0, (Mulberry32(seed, k) * NumTicks) \div RngMod))]

\* eventTimeline.get(tick): the event of the tick with the horse picked
EventAt(t) ==
  IF placed[t] = << >> THEN NoEvent
  ELSE [id |-> placed[t][1].id, pick |-> PickIndex(seedInt, placed[t][1])]

\* generateRaceTicks: the tick at which the base path crosses the line
BaseCrossTick(steps, h) ==
  IF \E t \in 0 .. NumTicks - 1 : steps[h] * t >= FinishLine
    THEN CHOOSE t \in 0 .. NumTicks - 1 :
           /\ steps[h] * t >= FinishLine
           /\ \A u \in 0 .. t - 1 : steps[h] * u < FinishLine
    ELSE NumTicks

\* generateRaceTicks: finishOrder, by crossing time and then by id
BaseFinishOrder(steps) ==
  LET before(a, b) ==
        \/ BaseCrossTick(steps, a) < BaseCrossTick(steps, b)
        \/ /\ BaseCrossTick(steps, a) = BaseCrossTick(steps, b)
           /\ HorseIdx(a) < HorseIdx(b)
  IN [i \in 1 .. Len(Horses) |->
        CHOOSE h \in HorseSet : Cardinality({g \in HorseSet : before(g, h)}) = i - 1]

\* computeRaceChecksum: the payload that is hashed
RaceChecksum(seed, steps, rows, order, times, timeline) ==
  [seed |-> seed, horseSeeds |-> steps,
   firstTickPositions |-> [h \in HorseSet |-> rows[1][h].position],
   lastTickPositions |-> [h \in HorseSet |-> rows[Len(rows)][h].position],
   totalTickCount |-> Len(rows), finishOrder |-> order,
   finishTimesMs |-> times, eventTimelineHash |-> timeline]

\* `precomputed` is null
NoPrecomputed == [id |-> NoRace]

\* seedPrecomputedRace up to the placement loop of generateEventTimeline
SeedBegin ==
  /\ ~seeding
  /\ seedCalls < MaxSeedCalls
  /\ seeding' = TRUE
  /\ matrix' = << >>
  /\ precomputeCalls' = precomputeCalls + 1
  /\ catalog' = EVENT_CATALOG
  /\ candidates' = SortedCandidates(EVENT_CATALOG, DrawnTicks(seedInt))
  /\ nextCandidate' = 1
  /\ placed' = [t \in 0 .. NumTicks - 1 |-> << >>]
  /\ lastPlacedById' = [id \in CatalogIdSet |-> -1]
  /\ baseStep' = HorseSteps(seedInt)
  /\ effTick' = 0
  /\ stunUntil' = [h \in HorseSet |-> NoStun]
  /\ removed' = [h \in HorseSet |-> FALSE]
  /\ activeEventsWindows' = [h \in HorseSet |-> {}]
  /\ activeSwaps' = [h \in HorseSet |-> NoSwap]
  /\ prevFinalPosition' = [h \in HorseSet |-> 0]
  /\ resultRow' = EmptyRow
  /\ resultPrev' = EmptyRow
  /\ firstCrossTick' = -1
  /\ crossingIds' = {}
  /\ eventsApplied' = 0
  /\ removedAt' = [h \in HorseSet |-> -1]
  /\ chainAt' = [h \in HorseSet |-> {}]
  /\ reachedAt' = [h \in HorseSet |-> -1]
  /\ UNCHANGED << seedInt, lastPrecomputed, firstPrecomputed, seedCalls >>
  /\ UNCHANGED << wsVars, cycleVars, engineVars, syncVars, aliveVars,
                  compVars >>

\* generateEventTimeline: one iteration of the placement loop
SeedPlace ==
  /\ seeding
  /\ Place

\* applyEventEffects: one tick, its row appended to the matrix
SeedTick ==
  /\ seeding
  /\ nextCandidate > Len(candidates)
  /\ TickBody(EventAt(effTick))
  /\ matrix' = Append(matrix, resultRow')
  /\ UNCHANGED << seedInt, seeding, lastPrecomputed, precomputeCalls,
                  firstPrecomputed, seedCalls >>
  /\ UNCHANGED << wsVars, cycleVars, engineVars, syncVars, aliveVars,
                  timelineVars, compVars >>

\* winnerFromMatrix: determineWinner(finalHorseStateMatrix)?.horseId ||
\* winnerId, where winnerId is finishOrder[0] of generateRaceTicks
WinnerFromMatrix ==
  IF WinnerOf(crossingIds) # NoWinner THEN WinnerOf(crossingIds)
  ELSE BaseFinishOrder(baseStep)[1]

\* streamPrecomputedTickAt at the last tick: currentRace.winner, the
\* winner of the race:finish frame
FinishFrameWinner == BaseFinishOrder(baseStep)[1]

\* what seedPrecomputedRace stores in `precomputed`
Precomputed ==
  LET order == BaseFinishOrder(baseStep)
  IN [id |-> seedInt,
      finalHorseStateMatrix |-> matrix,
      eventTimeline |-> placed,
      finishOrder |-> order,
      finishTimesMs |-> reachedAt,
      winnerId |-> WinnerFromMatrix,
      checksum |-> RaceChecksum(seedInt, baseStep, matrix, order, reachedAt,
                                placed)]

\* seedPrecomputedRace after applyEventEffects
SeedEnd ==
  /\ seeding
  /\ nextCandidate > Len(candidates)
  /\ effTick = NumTicks
  /\ seeding' = FALSE
  /\ lastPrecomputed' = Precomputed
  /\ firstPrecomputed' = IF seedCalls = 0 THEN Precomputed ELSE firstPrecomputed
  /\ seedCalls' = seedCalls + 1
  /\ UNCHANGED << seedInt, matrix, precomputeCalls >>
  /\ UNCHANGED << wsVars, cycleVars, engineVars, syncVars, aliveVars,
                  effectsVars, timelineVars, compVars >>

\* seedPrecomputedRace has not been called
SeedIdle ==
  /\ seedInt = 0
  /\ seeding = FALSE
  /\ matrix = << >>
  /\ lastPrecomputed = NoPrecomputed
  /\ precomputeCalls = 0
  /\ firstPrecomputed = NoPrecomputed
  /\ seedCalls = 0

(***************************************************************************)
(* FileRacePersistence.saveRace for one race.  One step of the model is    *)
(* one awaited file operation, which succeeds or fails, together with the  *)
(* code that runs until the next one.                                      *)
(***************************************************************************)
MaxSaveCalls == 2
PersistRace == "r1"

\* markUnsaved: the set after the call
MarkUnsaved(u) == u \cup {PersistRace}

\* markUnsaved: UNSAVED.flag after the call; the write is best-effort and
\* is not awaited
FlagAfterMark(u, flagOk) ==
  IF PersistRace \in u THEN flagFile ELSE flagFile \/ flagOk

\* saveRace is called: the summary is composed and mkdir is awaited
SaveRace(hasPaths, hasTicks) ==
  /\ savePc = "idle"
  /\ saveCalls < MaxSaveCalls
  /\ savePc' = "mkdir"
  /\ saveData' = [hasPaths |-> hasPaths, hasTicks |-> hasTicks]
  /\ failedWrites' = {}
  /\ UNCHANGED << unsaved, flagFile, summaryFile, summaryTmp, saveCalls >>
  /\ UNCHANGED notPersistVars

\* the outer catch: markUnsaved, then the temp file is removed best-effort
SummaryCatch(tmpLeft, flagOk) ==
  /\ unsaved' = MarkUnsaved(unsaved)
  /\ flagFile' = FlagAfterMark(unsaved, flagOk)
  /\ summaryTmp' = tmpLeft
  /\ savePc' = "done"
  /\ UNCHANGED << saveData, summaryFile, saveCalls >>

\* fs.mkdir(dir) settles
Mkdir(ok, flagOk) ==
  /\ savePc = "mkdir"
  /\ IF ok
       THEN /\ savePc' = "paths"
            /\ UNCHANGED << saveData, unsaved, flagFile, summaryFile,
                            summaryTmp, failedWrites, saveCalls >>
       ELSE /\ SummaryCatch(summaryTmp, flagOk)
            /\ failedWrites' = failedWrites \cup {"mkdir"}
  /\ UNCHANGED notPersistVars

\* one of the three writes in a try of its own: skipped when the artifact
\* is not there, marks the race unsaved when it fails
ArtifactWrite(pc, next, present, artifact, ok, flagOk) ==
  /\ savePc = pc
  /\ savePc' = next
  /\ IF present /\ ~ok
       THEN /\ unsaved' = MarkUnsaved(unsaved)
            /\ flagFile' = FlagAfterMark(unsaved, flagOk)
            /\ failedWrites' = failedWrites \cup {artifact}
       ELSE UNCHANGED << unsaved, flagFile, failedWrites >>
  /\ UNCHANGED << saveData, summaryFile, summaryTmp, saveCalls >>
  /\ UNCHANGED notPersistVars

\* writeJson(precompPath, data.precomputedPaths) settles
WritePaths(ok, flagOk) ==
  ArtifactWrite("paths", "timeline", saveData.hasPaths, "paths", ok, flagOk)

\* writeJson(timelinePath, serializedTimeline) settles
WriteTimeline(ok, flagOk) ==
  ArtifactWrite("timeline", "ticks", TRUE, "timeline", ok, flagOk)

\* writeJson(ticksPath, data.tickStream) settles
WriteTicks(ok, flagOk) ==
  ArtifactWrite("ticks", "summaryTmp", saveData.hasTicks, "ticks", ok, flagOk)

\* writeJson(summaryPathTmp, summary) settles; a failed write leaves no
\* file or a partial one, which fs.rm removes unless it fails too
WriteSummaryTmp(ok, tmpLeft, flagOk) ==
  /\ savePc = "summaryTmp"
  /\ tmpLeft \in {"absent", "partial"}
  /\ IF ok
       THEN /\ savePc' = "rename"
            /\ summaryTmp' = "complete"
            /\ UNCHANGED << saveData, unsaved, flagFile, summaryFile,
                            failedWrites, saveCalls >>
       ELSE /\ SummaryCatch(tmpLeft, flagOk)
            /\ failedWrites' = failedWrites \cup {"summary"}
  /\ UNCHANGED notPersistVars

\* fs.rename(summaryPathTmp, summaryPath) settles; on success the unsaved
\* mark of the race is deleted
Rename(ok, rmOk, flagOk) ==
  /\ savePc = "rename"
  /\ IF ok
       THEN /\ summaryFile' = IF summaryTmp = "complete" THEN "new" ELSE summaryTmp
            /\ summaryTmp' = "absent"
            /\ unsaved' = unsaved \ {PersistRace}
            /\ savePc' = "done"
            /\ UNCHANGED << saveData, flagFile, failedWrites, saveCalls >>
       ELSE /\ SummaryCatch(IF rmOk THEN "absent" ELSE summaryTmp, flagOk)
            /\ failedWrites' = failedWrites \cup {"summary"}
  /\ UNCHANGED notPersistVars

\* the promise of saveRace has resolved; a later save finds summary.json
SaveSettled ==
  /\ savePc = "done"
  /\ savePc' = "idle"
  /\ saveCalls' = saveCalls + 1
  /\ summaryFile' = IF summaryFile = "new" THEN "old" ELSE summaryFile
  /\ UNCHANGED << saveData, unsaved, flagFile, summaryTmp, failedWrites >>
  /\ UNCHANGED notPersistVars

\* no save has been made
PersistIdle ==
  /\ savePc = "idle"
  /\ saveData = [hasPaths |-> FALSE, hasTicks |-> FALSE]
  /\ unsaved = {}
  /\ flagFile = FALSE
  /\ summaryFile = "absent"
  /\ summaryTmp = "absent"
  /\ failedWrites = {}
  /\ saveCalls = 0

(***************************************************************************)
(* The schedule of the engine loop: start() and loop() with the clock.     *)
(* Time is in milliseconds; the timer callback runs at its due time or     *)
(* later.                                                                  *)
(***************************************************************************)
TICK_INTERVAL == 50
MaxPerfNow == 400

\* the clock moves by half a tick interval, by one, or by two and a half
PerfSteps == {TICK_INTERVAL \div 2, TICK_INTERVAL, (5 * TICK_INTERVAL) \div 2}

\* time loop() takes between its two readings of the clock
BodyTimes == {0, TICK_INTERVAL \div 2}

\* a schedule that plans the next tick one interval after the current time
NextPlannedFromNow(planned, now) == now + TICK_INTERVAL

\* nextTickTime += TICK_INTERVAL
NextPlanned(planned, now) == planned + TICK_INTERVAL

\* time passes
AdvancePerf(d) ==
  /\ perfNow + d <= MaxPerfNow
  /\ perfNow' = perfNow + d
  /\ UNCHANGED << nextTickTime, timerDue, startedAt, timerSetAt >>
  /\ UNCHANGED notPersistVarsButClock
  /\ UNCHANGED persistVars

\* start(): nextTickTime = lastTickTime = performance.now(), setTimeout(loop, 0)
TimedStart ==
  /\ StartEngineLoop
  /\ nextTickTime' = perfNow
  /\ startedAt' = perfNow
  /\ timerDue' = perfNow
  /\ timerSetAt' = perfNow
  /\ UNCHANGED perfNow
  /\ UNCHANGED << effectsVars, timelineVars, seedVars, persistVars, raceVars,
                  electorVars, registryVars >>

\* the timer callback loop(), which takes `body` ms: when it goes on, it
\* advances nextTickTime and sets the timer max(0, nextTickTime - now) ahead
TimedLoop(buf, body) ==
  /\ perfNow >= timerDue
  /\ perfNow + body <= MaxPerfNow
  /\ LoopBody(buf)
  /\ perfNow' = perfNow + body
  /\ IF running /\ ~LoopStops
       THEN LET planned == NextPlanned(IF nextTickTime = -1 THEN perfNow
                                       ELSE nextTickTime, perfNow)
            IN /\ nextTickTime' = planned
               /\ timerDue' = perfNow' + Max(0, planned - perfNow')
               /\ timerSetAt' = perfNow'
       ELSE UNCHANGED << nextTickTime, timerDue, timerSetAt >>
  /\ UNCHANGED startedAt
  /\ UNCHANGED << effectsVars, timelineVars, seedVars, persistVars, raceVars,
                  electorVars, registryVars >>

\* the engine loop has not been started
ClockIdle ==
  /\ perfNow = 0
  /\ nextTickTime = -1
  /\ timerDue = 0
  /\ startedAt = 0
  /\ timerSetAt = 0

(***************************************************************************)
(* The races of consecutive cycles: the module variables `precomputed`     *)
(* and `currentRace` of raceEngine.ts under calls of seedPrecomputedRace,  *)
(* startPrecomputedRace and streamPrecomputedTickAt.  A race is named by   *)
(* the number of its cycle; a race:tick frame is logged with the race      *)
(* whose positions it carries.                                             *)
(***************************************************************************)
MaxCycles == 2

NoCurrentRace == [id |-> 0, isActive |-> FALSE, lastBroadcastedTick |-> -1]

\* second 27: the cycle's seed is set and seedPrecomputedRace() replaces
\* `precomputed`
SeedCall ==
  /\ smPhase = "idle"
  /\ precomputedId < MaxCycles
  /\ precomputedId' = precomputedId + 1
  /\ smPhase' = "countdown"
  /\ UNCHANGED << currentRace, frameLog >>
  /\ UNCHANGED notRaceVars

\* second 30: the state machine enters race_starting
EnterRaceStarting ==
  /\ smPhase = "countdown"
  /\ smPhase' = "race_starting"
  /\ UNCHANGED << precomputedId, currentRace, frameLog >>
  /\ UNCHANGED notRaceVars

\* startPrecomputedRace() in race_starting (in any other phase it returns
\* at once): enters race_running, replaces currentRace and broadcasts
\* race:start
StartCall ==
  /\ smPhase = "race_starting"
  /\ smPhase' = "race_running"
  /\ currentRace' = [id |-> precomputedId, isActive |-> TRUE,
                     lastBroadcastedTick |-> -1]
  /\ frameLog' = Append(frameLog, [type |-> "race:start",
                                   race |-> precomputedId, tick |-> -1])
  /\ UNCHANGED precomputedId
  /\ UNCHANGED notRaceVars

\* the cycle goes on to results and back to idle, whatever was streamed
CycleOver ==
  /\ smPhase = "race_running"
  /\ smPhase' = "idle"
  /\ UNCHANGED << precomputedId, currentRace, frameLog >>
  /\ UNCHANGED notRaceVars

\* broadcastTickSafe: tickIndex <= runtimeRace.lastBroadcastedTick
IsOldTick(idx) == idx <= currentRace.lastBroadcastedTick

\* streamPrecomputedTickAt(tickIndex); it throws without a precomputed or
\* a current race
StreamCall(tickIndex) ==
  /\ precomputedId # 0
  /\ currentRace.id # 0
  /\ LET idx == ClampTick(tickIndex)
         old == IsOldTick(idx)
         isLast == idx >= TotalTicks - 1
         tickFrame == [type |-> "race:tick", race |-> precomputedId,
                       tick |-> idx]
         finishFrame == [type |-> "race:finish", race |-> currentRace.id,
                         tick |-> -1]
         log1 == IF old THEN frameLog ELSE Append(frameLog, tickFrame)
     IN /\ currentRace' =
             [currentRace EXCEPT
                !.lastBroadcastedTick = IF old THEN @ ELSE idx,
                !.isActive = @ /\ ~isLast]
        /\ frameLog' = IF isLast /\ currentRace.isActive
                         THEN Append(log1, finishFrame) ELSE log1
  /\ UNCHANGED << precomputedId, smPhase >>
  /\ UNCHANGED notRaceVars

\* no race has been seeded
RaceIdle ==
  /\ precomputedId = 0
  /\ currentRace = NoCurrentRace
  /\ smPhase = "idle"
  /\ frameLog = << >>

(***************************************************************************)
(* LeaderElector (leader/elector.ts) of two nodes that share the leader    *)
(* key of one store.  Every await of tryAcquire and renewIfLeader is a     *)
(* step of its own; a store operation that throws ends the call, the       *)
(* catch ignores it.                                                       *)
(***************************************************************************)
Nodes == {"n1", "n2"}
NoNode == "none"
\* LEADER_TTL_SEC in renewal periods: 15 s over the 5 s of the renew timer
TtlPeriods == 3

\* start(): the client is created and connected, the two timers are set
ElectorStart(n) ==
  /\ ~redis[n]
  /\ redis' = [redis EXCEPT ![n] = TRUE]
  /\ UNCHANGED << electorRole, leaderKey, ttlLeft, acquirePc, renewPc >>
  /\ UNCHANGED notElectorVars

\* tryAcquire up to the first await: SET key nodeId NX EX ttlSec; on OK the
\* node becomes leader, otherwise the call goes on to GET
TryAcquireSet(n) ==
  /\ redis[n]
  /\ acquirePc[n] = "idle"
  /\ IF leaderKey = NoNode
       THEN /\ leaderKey' = n
            /\ ttlLeft' = TtlPeriods
            /\ electorRole' = [electorRole EXCEPT ![n] = "leader"]
            /\ UNCHANGED acquirePc
       ELSE /\ acquirePc' = [acquirePc EXCEPT ![n] = "get"]
            /\ UNCHANGED << leaderKey, ttlLeft, electorRole >>
  /\ UNCHANGED << redis, renewPc >>
  /\ UNCHANGED notElectorVars

\* tryAcquire after SET returned null: GET key; a node that is leader and
\* does not read its own id becomes edge
TryAcquireGet(n, throws) ==
  /\ acquirePc[n] = "get"
  /\ acquirePc' = [acquirePc EXCEPT ![n] = "idle"]
  /\ electorRole' =
       IF ~throws /\ leaderKey # n /\ electorRole[n] # "edge"
         THEN [electorRole EXCEPT ![n] = "edge"]
         ELSE electorRole
  /\ UNCHANGED << redis, leaderKey, ttlLeft, renewPc >>
  /\ UNCHANGED notElectorVars

\* renewIfLeader up to the second await: GET key; a node that reads its own
\* id goes on to EXPIRE, any other node becomes edge
RenewGet(n) ==
  /\ redis[n]
  /\ renewPc[n] = "idle"
  /\ IF leaderKey = n
       THEN /\ renewPc' = [renewPc EXCEPT ![n] = "expire"]
            /\ UNCHANGED electorRole
       ELSE /\ electorRole' = [electorRole EXCEPT ![n] = "edge"]
            /\ UNCHANGED renewPc
  /\ UNCHANGED << redis, leaderKey, ttlLeft, acquirePc >>
  /\ UNCHANGED notElectorVars

\* renewIfLeader after GET returned the node's id: EXPIRE key ttlSec, on
\* whatever the key holds by now, then the node is leader
RenewExpire(n, throws) ==
  /\ renewPc[n] = "expire"
  /\ renewPc' = [renewPc EXCEPT ![n] = "idle"]
  /\ ttlLeft' = IF ~throws /\ leaderKey # NoNode THEN TtlPeriods ELSE ttlLeft
  /\ electorRole' =
       IF throws THEN electorRole ELSE [electorRole EXCEPT ![n] = "leader"]
  /\ UNCHANGED << redis, leaderKey, acquirePc >>
  /\ UNCHANGED notElectorVars

\* a renewal period passes in the store; the key is removed when its time
\* to live is over
TtlElapses ==
  /\ leaderKey # NoNode
  /\ ttlLeft' = ttlLeft - 1
  /\ leaderKey' = IF ttlLeft = 1 THEN NoNode ELSE leaderKey
  /\ UNCHANGED << electorRole, redis, acquirePc, renewPc >>
  /\ UNCHANGED notElectorVars

\* no elector has been started, the key does not exist
ElectorIdle ==
  /\ electorRole = [n \in Nodes |-> "edge"]
  /\ redis = [n \in Nodes |-> FALSE]
  /\ leaderKey = NoNode
  /\ ttlLeft = 0
  /\ acquirePc = [n \in Nodes |-> "idle"]
  /\ renewPc = [n \in Nodes |-> "idle"]

(***************************************************************************)
(* MasterTimelineImpl (timeline/masterTimeline.ts): the registry of the    *)
(* timers of the process.  A callback runs to completion, so the firing of *)
(* a timer is one step.                                                    *)
(***************************************************************************)
TimerIds == {"a", "b"}
\* the timer references the runtime hands out in one run
MaxRefs == 4
NoEntry == [id |-> "none", type |-> "none", timerRef |-> 0, raceId |-> NoRace]

\* the registry and the runtime's timers as one value the methods transform
Registry ==
  [timers |-> timers, pending |-> pendingTimers, nextRef |-> nextRef]

\* clear(id): clearTimeout / clearInterval of the entry's timer and removal
\* of the entry; nothing without an entry
Clear(st, id) ==
  IF st.timers[id] = NoEntry
    THEN st
    ELSE [st EXCEPT
           !.pending = {p \in @ : p.ref # st.timers[id].timerRef},
           !.timers = [@ EXCEPT ![id] = NoEntry]]

\* schedule / setInterval: clear(id), a new timer of the runtime, and the
\* entry for it; `again`: the callback schedules the same id once more
Schedule(st, id, type, raceId, again) ==
  LET c == Clear(st, id)
      ref == c.nextRef
  IN  [c EXCEPT
        !.pending = @ \cup {[ref |-> ref, id |-> id, type |-> type,
                             raceId |-> raceId, again |-> again]},
        !.timers = [@ EXCEPT ![id] = [id |-> id, type |-> type,
                                      timerRef |-> ref, raceId |-> raceId]],
        !.nextRef = ref + 1]

\* clearAllForRace(raceId): clear(id) for every entry of the race
ClearAllForRace(st, raceId) ==
  [st EXCEPT
    !.pending = {p \in @ : \A id \in TimerIds :
                   st.timers[id].raceId = raceId
                     => p.ref # st.timers[id].timerRef},
    !.timers = [id \in TimerIds |->
                  IF @[id].raceId = raceId THEN NoEntry ELSE @[id]]]

\* shutdown(): clear(id) for every key of the registry
Shutdown(st) ==
  [st EXCEPT
    !.pending = {p \in @ : \A id \in TimerIds : p.ref # st.timers[id].timerRef},
    !.timers = [id \in TimerIds |-> NoEntry]]

\* the state after a method has run
Becomes(st) ==
  /\ timers' = st.timers
  /\ pendingTimers' = st.pending
  /\ nextRef' = st.nextRef

ScheduleCall(id, raceId, again) ==
  /\ nextRef <= MaxRefs
  /\ Becomes(Schedule(Registry, id, "timeout", raceId, again))
  /\ UNCHANGED << cancelled, ranAfterClear >>
  /\ UNCHANGED notRegistryVars

SetIntervalCall(id, raceId) ==
  /\ nextRef <= MaxRefs
  /\ Becomes(Schedule(Registry, id, "interval", raceId, FALSE))
  /\ UNCHANGED << cancelled, ranAfterClear >>
  /\ UNCHANGED notRegistryVars

ClearCall(id) ==
  /\ Becomes(Clear(Registry, id))
  /\ cancelled' = cancelled \cup {p.ref : p \in {q \in pendingTimers : q.id = id}}
  /\ UNCHANGED ranAfterClear
  /\ UNCHANGED notRegistryVars

ClearAllForRaceCall(raceId) ==
  /\ Becomes(ClearAllForRace(Registry, raceId))
  /\ cancelled' = cancelled \cup
       {p.ref : p \in {q \in pendingTimers : q.raceId = raceId}}
  /\ UNCHANGED ranAfterClear
  /\ UNCHANGED notRegistryVars

ShutdownCall ==
  /\ Becomes(Shutdown(Registry))
  /\ cancelled' = cancelled \cup {p.ref : p \in pendingTimers}
  /\ UNCHANGED ranAfterClear
  /\ UNCHANGED notRegistryVars

\* the timer of schedule() fires: try { fn() } finally { timers.delete(id) };
\* fn either does nothing with the timeline or calls schedule(id, ...) for
\* the id it was scheduled under
FireTimeout(p, again) ==
  /\ p \in pendingTimers
  /\ p.type = "timeout"
  /\ p.again => nextRef <= MaxRefs
  /\ LET fired == [Registry EXCEPT !.pending = @ \ {p}]
         afterFn == IF p.again
                      THEN Schedule(fired, p.id, "timeout", p.raceId, again)
                      ELSE fired
     IN  Becomes([afterFn EXCEPT !.timers = [@ EXCEPT ![p.id] = NoEntry]])
  /\ ranAfterClear' =
       IF p.ref \in cancelled THEN ranAfterClear \cup {p.ref} ELSE ranAfterClear
  /\ UNCHANGED cancelled
  /\ UNCHANGED notRegistryVars

\* the timer of setInterval() fires: fn(), the timer stays
FireInterval(p) ==
  /\ p \in pendingTimers
  /\ p.type = "interval"
  /\ ranAfterClear' =
       IF p.ref \in cancelled THEN ranAfterClear \cup {p.ref} ELSE ranAfterClear
  /\ UNCHANGED << timers, pendingTimers, nextRef, cancelled >>
  /\ UNCHANGED notRegistryVars

\* a new MasterTimelineImpl
RegistryIdle ==
  /\ timers = [id \in TimerIds |-> NoEntry]
  /\ pendingTimers = {}
  /\ nextRef = 1
  /\ cancelled = {}
  /\ ranAfterClear = {}

\* the components modelled on their own are idle
CompAtBoot ==
  PersistIdle /\ ClockIdle /\ RaceIdle /\ ElectorIdle /\ RegistryIdle
RestAtBoot == SeedIdle /\ CompAtBoot

\* neither applyEventEffects nor generateEventTimeline is running
EffectsIdle == EffectsStart([h \in HorseSet |-> FinishLine])
PrecomputeAtBoot == EffectsIdle /\ TimelineIdle /\ RestAtBoot

(***************************************************************************)
(* The node from the moment a race has been started.                       *)
(*   Spec       : fan-out to two subscribers of frames of one race that    *)
(*                arrive from the bus, on a node whose role is fixed.      *)
(*   SpecSeq    : sequencing of the frames of two races for one            *)
(*                subscriber while the elector changes the node's role;    *)
(*                the bus delivers every tick of a race, in order.         *)
(*   SpecDriver : the node's own tick driver broadcasting to two           *)
(*                subscribers while the role changes.                      *)
(***************************************************************************)
\* The engine before start(), no tick streamed yet
EngineAtBoot ==
  /\ running = FALSE
  /\ timerRef = FALSE
  /\ tickCount = 0
  /\ statePrecomputed = FALSE
  /\ currentTickIndex = -1
  /\ engineTicks = 0
  /\ lastEngineTick = -1
  /\ streamed = << >>
  /\ finishFrames = 0
  /\ persisted = 0
  /\ highTickIndex = -1

\* No socket pinged yet
KeepaliveAtBoot ==
  /\ clientAlive = [c \in ClientIds |-> TRUE]
  /\ pongSince = [c \in ClientIds |-> FALSE]
  /\ atSweep = [c \in ClientIds |-> FALSE]
  /\ terminated = [c \in ClientIds |-> FALSE]
  /\ sweepParity = FALSE

\* No sync:request handled yet
SyncAtBoot ==
  /\ nowMs = BootTime
  /\ lastSyncByClient = [c \in ClientIds |-> 0]
  /\ syncReply = << >>
  /\ lastAnswerAt = [c \in ClientIds |-> -1]
  /\ answerGap = [c \in ClientIds |-> -1]

WsAtBoot ==
  /\ seqByRace = [r \in Races |-> 0]
  /\ lastKeyframeTickByRace = [r \in Races |-> -1]
  /\ lastPositionsByRace = [r \in Races |-> << >>]
  /\ clients = << >>
  /\ clientPrefs = [c \in ClientIds |-> DefaultPrefs]
  /\ readyState = [c \in ClientIds |-> 1]
  /\ droppedTickFrames = 0
  /\ lastBroadcastedTick = -1
  /\ isActive = TRUE
  /\ peerSeq = [r \in Races |-> 0]
  /\ busTick = [r \in Races |-> -1]
  /\ lastType = "none"
  /\ lastOut = NoOut
  /\ lastSeqSent = [r \in Races |-> 0]
  /\ keyPosSent = [r \in Races |-> << >>]
  /\ nSequenced = [r \in Races |-> 0]
  /\ demoted = FALSE

ServerAtBoot ==
  /\ WsAtBoot
  /\ EngineAtBoot
  /\ SyncAtBoot
  /\ KeepaliveAtBoot

InitServer == ServerAtBoot /\ PrecomputeAtBoot

InitNode == InitServer /\ CycleWithRaceStarted

\* The role the elector gave the node before the race, signing off
Init ==
  /\ role \in {"leader", "edge"}
  /\ signingEnabled = FALSE
  /\ InitNode

Next ==
  \/ \E c \in ClientIds, binary \in BOOLEAN, mode \in {"plain", "delta"} :
        Connect(c, binary, mode, FALSE)
  \/ \E c \in ClientIds : Close(c)
  \/ \E c \in ClientIds \ {Observed} : SocketClosing(c)
  \/ \E t \in TickIndices, buf \in StepBuffers(clients) : EdgeTick("r1", t, buf)
  \/ \E type \in CriticalTypes, buf \in StepBuffers(clients) :
        EdgeFrame(type, "r1", buf)

Spec == Init /\ [][Next]_vars

\* The static default role, signing off
InitSeq ==
  /\ role = "edge"
  /\ signingEnabled = FALSE
  /\ InitNode

NextSeq ==
  \/ \E binary \in BOOLEAN, mode \in {"plain", "delta"} :
        Connect(Observed, binary, mode, FALSE)
  \/ Close(Observed)
  \/ \E newRole \in {"leader", "edge"} : SetRole(newRole)
  \/ \E r \in Races, t \in 0 .. MaxLowTick, buf \in StepBuffers(clients) :
        t = busTick[r] + 1 /\ EdgeTick(r, t, buf)

SpecSeq == InitSeq /\ [][NextSeq]_vars

\* The static default role, signing on or off
InitDriver ==
  /\ role = "edge"
  /\ signingEnabled \in BOOLEAN
  /\ InitNode

NextDriver ==
  \/ \E c \in ClientIds, binary \in BOOLEAN, mode \in {"plain", "delta"},
        hasInfo \in BOOLEAN : Connect(c, binary, mode, hasInfo)
  \/ \E c \in ClientIds : Close(c)
  \/ \E c \in ClientIds : SocketClosing(c)
  \/ \E newRole \in {"leader", "edge"} : SetRole(newRole)
  \/ \E tickIndex \in 0 .. TotalTicks, buf \in StepBuffers(clients) :
        StreamTick(tickIndex, buf)

SpecDriver == InitDriver /\ [][NextDriver]_vars

(***************************************************************************)
(* SpecCycle : the cycle state machine from boot, its tick() called by the *)
(*             1-second timer and transition() called by the engine.       *)
(***************************************************************************)
InitCycle ==
  /\ role = "edge"
  /\ signingEnabled = FALSE
  /\ InitServer
  /\ CycleAtBoot

NextCycle ==
  \/ Tick
  \/ \E next \in Phases : Transition(next)

SpecCycle == InitCycle /\ [][NextCycle]_vars

(***************************************************************************)
(* SpecSync : two connected subscribers sending sync:request messages for  *)
(*            a seeded race whose streaming has reached any tick index     *)
(*            (-1: not started yet), while time passes.                    *)
(***************************************************************************)
InitSync ==
  /\ role = "edge"
  /\ signingEnabled = FALSE
  /\ seqByRace = [r \in Races |-> 0]
  /\ lastKeyframeTickByRace = [r \in Races |-> -1]
  /\ lastPositionsByRace = [r \in Races |-> << >>]
  /\ clients = << "A", "B" >>
  /\ clientPrefs = [c \in ClientIds |-> DefaultPrefs]
  /\ readyState = [c \in ClientIds |-> 1]
  /\ droppedTickFrames = 0
  /\ lastBroadcastedTick = -1
  /\ isActive = FALSE
  /\ peerSeq = [r \in Races |-> 0]
  /\ busTick = [r \in Races |-> -1]
  /\ lastType = "none"
  /\ lastOut = NoOut
  /\ lastSeqSent = [r \in Races |-> 0]
  /\ keyPosSent = [r \in Races |-> << >>]
  /\ nSequenced = [r \in Races |-> 0]
  /\ demoted = FALSE
  /\ state = "countdown"
  /\ currentSecond = 27
  /\ currentSeed = 1
  /\ cycleCounter = 0
  /\ precomputed = 1
  /\ raceStarted = FALSE
  /\ threw = FALSE
  /\ phasePath = << "idle", "countdown" >>
  /\ ticksOnly = TRUE
  /\ tickCalls = 0
  /\ stateEvents = 0
  /\ lastCall = "boot"
  /\ running = FALSE
  /\ timerRef = FALSE
  /\ tickCount = 0
  /\ statePrecomputed = FALSE
  /\ currentTickIndex \in -1 .. SnapshotLen - 1
  /\ engineTicks = 0
  /\ lastEngineTick = -1
  /\ streamed = << >>
  /\ finishFrames = 0
  /\ persisted = 0
  /\ highTickIndex = currentTickIndex
  /\ SyncAtBoot
  /\ KeepaliveAtBoot
  /\ PrecomputeAtBoot

NextSync ==
  \/ \E c \in ClientIds, raceId \in Races \cup {NoRace}, fromTick \in FromTicks :
        SyncRequest(c, raceId, fromTick)
  \/ \E d \in ClockSteps : AdvanceClock(d)

SpecSync == InitSync /\ [][NextSync]_vars

(***************************************************************************)
(* SpecKeepalive : subscribers connecting, answering pings or not, and     *)
(*                 closing, while the keepalive sweep runs and frames of   *)
(*                 a race arrive from the bus.                             *)
(***************************************************************************)
InitKeepalive ==
  /\ role = "edge"
  /\ signingEnabled = FALSE
  /\ InitNode

NextKeepalive ==
  \/ \E c \in ClientIds : Connect(c, FALSE, "plain", FALSE)
  \/ \E c \in ClientIds : Close(c)
  \/ \E c \in ClientIds : Pong(c)
  \/ Sweep
  \/ \E t \in 0 .. MaxLowTick :
        t = busTick["r1"] + 1 /\ EdgeTick("r1", t, [c \in ClientIds |-> 0])

SpecKeepalive == InitKeepalive /\ [][NextKeepalive]_vars

(***************************************************************************)
(* SpecRelay : frames of one race arriving from the bus, tick after tick,  *)
(*             at a node that starts as an edge, with signing on or off in *)
(*             the deployment, while subscribers of every mode connect and *)
(*             the elector changes the node's role.                        *)
(***************************************************************************)
InitRelay ==
  /\ role = "edge"
  /\ signingEnabled \in BOOLEAN
  /\ InitNode

NextRelay ==
  \/ \E c \in ClientIds, binary \in BOOLEAN, mode \in {"plain", "delta"} :
        Connect(c, binary, mode, FALSE)
  \/ \E c \in ClientIds : Close(c)
  \/ \E newRole \in {"leader", "edge"} : SetRole(newRole)
  \/ \E t \in 0 .. MaxLowTick, buf \in StepBuffers(clients) :
        t = busTick["r1"] + 1 /\ EdgeTick("r1", t, buf)

SpecRelay == InitRelay /\ [][NextRelay]_vars

(***************************************************************************)
(* SpecEffects : applyEventEffects run tick by tick over the base paths of *)
(*               two horses and every timeline of at most MaxEvents events *)
(*               in the first ticks, with determineWinner scanning the     *)
(*               rows as they are built.                                   *)
(***************************************************************************)
InitEffects ==
  /\ role = "edge"
  /\ signingEnabled = FALSE
  /\ ServerAtBoot
  /\ CycleWithRaceStarted
  /\ \E steps \in [HorseSet -> BaseSteps] : EffectsStart(steps)
  /\ TimelineIdle
  /\ RestAtBoot

NextEffects == \E ev \in EventInstances \cup {NoEvent} : ApplyTick(ev)

SpecEffects == InitEffects /\ [][NextEffects]_vars

(***************************************************************************)
(* SpecTimeline : the placement loop of generateEventTimeline over every   *)
(*                catalog of Catalogs and every assignment of the          *)
(*                candidates to the ticks of CandidateTicks.               *)
(***************************************************************************)
InitTimeline ==
  /\ role = "edge"
  /\ signingEnabled = FALSE
  /\ ServerAtBoot
  /\ CycleWithRaceStarted
  /\ EffectsIdle
  /\ RestAtBoot
  /\ \E cat \in Catalogs, ticks \in [1 .. NumCandidates -> CandidateTicks] :
        TimelineStart(cat, ticks)

NextTimeline == Place

SpecTimeline == InitTimeline /\ [][NextTimeline]_vars

(***************************************************************************)
(* SpecSeed : seedPrecomputedRace called MaxSeedCalls times for one cycle  *)
(*            seed, in a process that has recorded any number of earlier   *)
(*            precomputations.                                             *)
(***************************************************************************)
InitSeed ==
  /\ role = "edge"
  /\ signingEnabled = FALSE
  /\ ServerAtBoot
  /\ CycleWithRaceStarted
  /\ EffectsIdle
  /\ TimelineIdle
  /\ seedInt \in Seeds
  /\ seeding = FALSE
  /\ matrix = << >>
  /\ lastPrecomputed = NoPrecomputed
  /\ precomputeCalls \in 0 .. 1
  /\ firstPrecomputed = NoPrecomputed
  /\ seedCalls = 0
  /\ CompAtBoot

NextSeed == SeedBegin \/ SeedPlace \/ SeedTick \/ SeedEnd

SpecSeed == InitSeed /\ [][NextSeed]_vars

(***************************************************************************)
(* SpecPersist : MaxSaveCalls calls of FileRacePersistence.saveRace for    *)
(*               one race, every file operation succeeding or failing.     *)
(***************************************************************************)
BaseAtBoot ==
  /\ role = "edge"
  /\ signingEnabled = FALSE
  /\ ServerAtBoot
  /\ CycleWithRaceStarted
  /\ EffectsIdle
  /\ TimelineIdle
  /\ SeedIdle

InitPersist ==
  /\ BaseAtBoot
  /\ PersistIdle
  /\ ClockIdle
  /\ RaceIdle
  /\ ElectorIdle
  /\ RegistryIdle

NextPersist ==
  \/ \E hasPaths \in BOOLEAN, hasTicks \in BOOLEAN : SaveRace(hasPaths, hasTicks)
  \/ \E ok \in BOOLEAN, flagOk \in BOOLEAN : Mkdir(ok, flagOk)
  \/ \E ok \in BOOLEAN, flagOk \in BOOLEAN : WritePaths(ok, flagOk)
  \/ \E ok \in BOOLEAN, flagOk \in BOOLEAN : WriteTimeline(ok, flagOk)
  \/ \E ok \in BOOLEAN, flagOk \in BOOLEAN : WriteTicks(ok, flagOk)
  \/ \E ok \in BOOLEAN, tmpLeft \in {"absent", "partial"}, flagOk \in BOOLEAN :
       WriteSummaryTmp(ok, tmpLeft, flagOk)
  \/ \E ok \in BOOLEAN, rmOk \in BOOLEAN, flagOk \in BOOLEAN :
       Rename(ok, rmOk, flagOk)
  \/ SaveSettled

SpecPersist == InitPersist /\ [][NextPersist]_vars

(***************************************************************************)
(* SpecRestart : the boot sequence runRestartRecovery(), startEngine() and *)
(*               the loop, in a process in which the precomputed race,     *)
(*               with its start time and the tick index it had reached,    *)
(*               is retrievable.                                           *)
(***************************************************************************)
\* runRestartRecovery: restores the seed of the precomputed race; the
\* marker it schedules does nothing
RunRestartRecovery ==
  /\ lastCall = "boot"
  /\ IF precomputed # 0 /\ raceStarted
       THEN currentSeed' = precomputed
       ELSE UNCHANGED currentSeed
  /\ lastCall' = "runRestartRecovery"
  /\ UNCHANGED << state, currentSecond, cycleCounter, precomputed,
                  raceStarted, threw, phasePath, ticksOnly, tickCalls,
                  stateEvents >>
  /\ UNCHANGED << wsVars, engineVars, syncVars, aliveVars, pureVars >>

\* startEngine() of the boot sequence, after runRestartRecovery()
StartEngine ==
  /\ lastCall = "runRestartRecovery"
  /\ Start

InitRestart ==
  /\ role = "edge"
  /\ signingEnabled = FALSE
  /\ WsAtBoot
  /\ SyncAtBoot
  /\ KeepaliveAtBoot
  /\ PrecomputeAtBoot
  /\ state = "race_running"
  /\ currentSecond = 30
  /\ currentSeed = 0
  /\ cycleCounter = 0
  /\ precomputed = 1
  /\ raceStarted = TRUE
  /\ threw = FALSE
  /\ phasePath = << "race_starting", "race_running" >>
  /\ ticksOnly = TRUE
  /\ tickCalls = 0
  /\ stateEvents = 0
  /\ lastCall = "boot"
  /\ running = FALSE
  /\ timerRef = FALSE
  /\ tickCount = 0
  /\ statePrecomputed = FALSE
  /\ currentTickIndex \in 0 .. TotalTicks - 1
  /\ highTickIndex = currentTickIndex
  /\ engineTicks = 0
  /\ lastEngineTick = -1
  /\ streamed = << >>
  /\ finishFrames = 0
  /\ persisted = 0

NextRestart ==
  \/ \E binary \in BOOLEAN : Connect(Observed, binary, "plain", FALSE)
  \/ Close(Observed)
  \/ RunRestartRecovery
  \/ StartEngine
  \/ \E buf \in StepBuffers(clients) : Loop(buf)

SpecRestart == InitRestart /\ [][NextRestart]_vars

(***************************************************************************)
(* SpecClock : start(), stop() and the timer callback loop() while time    *)
(*             passes; the callback may run late and takes time itself.    *)
(***************************************************************************)
InitClock ==
  /\ role = "edge"
  /\ signingEnabled = FALSE
  /\ InitNode

NextClock ==
  \/ TimedStart
  \/ Stop
  \/ \E buf \in StepBuffers(clients), body \in BodyTimes : TimedLoop(buf, body)
  \/ \E d \in PerfSteps : AdvancePerf(d)

SpecClock == InitClock /\ [][NextClock]_vars

(***************************************************************************)
(* SpecRaces : MaxCycles consecutive cycles, each seeding and starting its *)
(*             race, with streamPrecomputedTickAt called at any moment     *)
(*             with any tick index.                                        *)
(***************************************************************************)
InitRaces ==
  /\ BaseAtBoot
  /\ CompAtBoot

NextRaces ==
  \/ SeedCall
  \/ EnterRaceStarting
  \/ StartCall
  \/ CycleOver
  \/ \E k \in 0 .. TotalTicks : StreamCall(k)

SpecRaces == InitRaces /\ [][NextRaces]_vars

(***************************************************************************)
(* SpecElector : the electors of two nodes on one store, their calls       *)
(*               interleaved await by await, and the key's time to live.   *)
(***************************************************************************)
InitElector == BaseAtBoot /\ CompAtBoot

NextElector ==
  \/ \E n \in Nodes : ElectorStart(n)
  \/ \E n \in Nodes : TryAcquireSet(n)
  \/ \E n \in Nodes, throws \in BOOLEAN : TryAcquireGet(n, throws)
  \/ \E n \in Nodes : RenewGet(n)
  \/ \E n \in Nodes, throws \in BOOLEAN : RenewExpire(n, throws)
  \/ TtlElapses

SpecElector == InitElector /\ [][NextElector]_vars

(***************************************************************************)
(* SpecRegistry : the callers of MasterTimeline and the runtime that fires *)
(*                its timers.                                              *)
(***************************************************************************)
InitRegistry == BaseAtBoot /\ CompAtBoot

NextRegistry ==
  \/ \E id \in TimerIds, raceId \in Races \cup {NoRace}, again \in BOOLEAN :
       ScheduleCall(id, raceId, again)
  \/ \E id \in TimerIds, raceId \in Races \cup {NoRace} :
       SetIntervalCall(id, raceId)
  \/ \E id \in TimerIds : ClearCall(id)
  \/ \E raceId \in Races : ClearAllForRaceCall(raceId)
  \/ ShutdownCall
  \/ \E p \in pendingTimers, again \in BOOLEAN : FireTimeout(p, again)
  \/ \E p \in pendingTimers : FireInterval(p)

SpecRegistry == InitRegistry /\ [][NextRegistry]_vars

(***************************************************************************)
(* SpecEngine : the engine loop started, stopped and reset while a started *)
(*              race is streamed to the subscribers.                       *)
(* SpecServer : the running server from boot: the engine loop started once *)
(*              (server entry point), the cycle driven by tick() alone.    *)
(***************************************************************************)
InitEngine ==
  /\ role = "edge"
  /\ signingEnabled = FALSE
  /\ InitNode

NextEngine ==
  \/ \E binary \in BOOLEAN : Connect(Observed, binary, "plain", FALSE)
  \/ Close(Observed)
  \/ Start
  \/ Stop
  \/ Reset
  \/ \E buf \in StepBuffers(clients) : Loop(buf)

SpecEngine == InitEngine /\ [][NextEngine]_vars

\* startEngine() at the end of the server entry point
InitServerRunning ==
  /\ role = "edge"
  /\ signingEnabled = FALSE
  /\ seqByRace = [r \in Races |-> 0]
  /\ lastKeyframeTickByRace = [r \in Races |-> -1]
  /\ lastPositionsByRace = [r \in Races |-> << >>]
  /\ clients = << >>
  /\ clientPrefs = [c \in ClientIds |-> DefaultPrefs]
  /\ readyState = [c \in ClientIds |-> 1]
  /\ droppedTickFrames = 0
  /\ lastBroadcastedTick = -1
  /\ isActive = FALSE
  /\ peerSeq = [r \in Races |-> 0]
  /\ busTick = [r \in Races |-> -1]
  /\ lastType = "none"
  /\ lastOut = NoOut
  /\ lastSeqSent = [r \in Races |-> 0]
  /\ keyPosSent = [r \in Races |-> << >>]
  /\ nSequenced = [r \in Races |-> 0]
  /\ demoted = FALSE
  /\ CycleAtBoot
  /\ running = TRUE
  /\ timerRef = TRUE
  /\ tickCount = 0
  /\ statePrecomputed = FALSE
  /\ currentTickIndex = -1
  /\ engineTicks = 0
  /\ lastEngineTick = -1
  /\ streamed = << >>
  /\ finishFrames = 0
  /\ persisted = 0
  /\ highTickIndex = -1
  /\ SyncAtBoot
  /\ KeepaliveAtBoot
  /\ PrecomputeAtBoot

NextServer ==
  \/ Tick
  \/ \E buf \in StepBuffers(clients) : Loop(buf)

SpecServer == InitServerRunning /\ [][NextServer]_vars

(***************************************************************************)
(* Properties of the broadcast fabric                                      *)
(***************************************************************************)
\* The race:tick messages the bus can deliver next
NextBusTicks ==
  { BusTickMsg(p[1], p[2]) :
      p \in { q \in Races \X TickIndices : q[2] > busTick[q[1]] } }

IsOpen(c) == InClients(c) /\ readyState[c] = 1

\* C1: for the observed subscriber and any race, the seq of every tick
\* frame (race:tick, race:keyframe, race:delta) the node sends it is
\* strictly greater than the seq of the tick frame of that race it was
\* sent before, whatever the role of the node and the buffer readings.
C1_SeqStrictlyIncreasing ==
  \A msg \in NextBusTicks, buf \in StepBuffers(clients) :
    LET frames == Broadcast(msg, buf, StartOfHandler).sent[Observed]
    IN \A i \in 1 .. Len(frames) :
         frames[i].type \in TickTypes => frames[i].seq > lastSeqSent[msg.raceId]

\* C2: for each race the last seq attached equals the number of frames of
\* the race this node has sequenced, and the next frame it sequences is
\* given that number plus one: the seqs attached are 1, 2, 3, ... and none
\* is attached twice, also after the role went leader -> edge -> leader.
C2_SeqCountsSequencedFrames ==
  /\ \A r \in Races : seqByRace[r] = nSequenced[r]
  /\ \A msg \in NextBusTicks, buf \in StepBuffers(clients) :
       LET st == Broadcast(msg, buf, StartOfHandler)
       IN IF role = "leader"
            THEN /\ Len(st.published) = 1
                 /\ st.published[1].seq = nSequenced[msg.raceId] + 1
                 /\ st.seq[msg.raceId] = nSequenced[msg.raceId] + 1
            ELSE st.seq = seqByRace

\* C2 witness: the node was demoted after it had sequenced frames, is
\* leader again and has just sequenced a further frame of race r1
C2_Witness ==
  /\ demoted
  /\ role = "leader"
  /\ lastType = "race:tick"
  /\ seqByRace["r1"] >= 2
  /\ seqByRace["r1"] < peerSeq["r1"]

\* C3: every tick frame the tick driver's broadcasts send to a subscriber
\* carries seq, tickIndex, tickTs and protoVer, in every role.
C3_DriverTickFramesCarryHeader ==
  \A tickIndex \in 0 .. TotalTicks, buf \in StepBuffers(clients) :
    LET st == StreamTickResult(tickIndex, buf)
    IN \A c \in ClientIds : \A i \in 1 .. Len(st.sent[c]) :
         LET f == st.sent[c][i]
         IN f.type \in TickTypes =>
              f.seq > 0 /\ f.tickIndex >= 0 /\ f.tickTs /\ f.protoVer

\* The number of open subscribers other than c whose reading is above the
\* threshold
OthersAbove(c, buf) ==
  Cardinality({ d \in ClientIds \ {c} :
                  IsOpen(d) /\ buf[d] > WS_BACKPRESSURE_THRESHOLD })

\* C4: back-pressure isolation.  For the observed subscriber B at or under
\* the threshold, the frames one broadcast of a tick sends to B are the
\* same whatever the other subscriber's buffered bytes are; B is sent a
\* frame for every tick; and the dropped-frame counter grows only by the
\* frames dropped for the other subscriber.
C4_BackpressureIsolation ==
  \A msg \in NextBusTicks :
    \A b1 \in StepBuffers(clients), b2 \in StepBuffers(clients) :
      (IsOpen(Observed) /\ b1[Observed] = WS_BACKPRESSURE_THRESHOLD
         /\ b2[Observed] = WS_BACKPRESSURE_THRESHOLD) =>
        LET s1 == Broadcast(msg, b1, StartOfHandler)
            s2 == Broadcast(msg, b2, StartOfHandler)
        IN /\ s1.sent[Observed] = s2.sent[Observed]
           /\ Len(s1.sent[Observed]) = 1
           /\ s1.dropped = droppedTickFrames + OthersAbove(Observed, b1)

\* C5: in one broadcast of a tick, whatever becomes of it for delta-mode
\* and binary subscribers, the frame is skipped for an open subscriber
\* exactly when its buffered bytes are strictly above
\* WS_BACKPRESSURE_THRESHOLD; every other open subscriber is sent exactly
\* one frame; a subscriber that is not open is sent nothing; and the
\* dropped-frame counter grows by the number of subscribers skipped.
C5_SkipExactlyAboveThreshold ==
  \A msg \in NextBusTicks, buf \in StepBuffers(clients) :
    LET st == Broadcast(msg, buf, StartOfHandler)
        skipped == { c \in ClientIds :
                       IsOpen(c) /\ buf[c] > WS_BACKPRESSURE_THRESHOLD }
    IN /\ \A c \in ClientIds :
            IF c \in skipped
              THEN st.out[c] = << "skipped" >> /\ st.sent[c] = << >>
            ELSE IF IsOpen(c)
              THEN Len(st.sent[c]) = 1 /\ Len(st.out[c]) = 1
                   /\ st.sent[c][1].type \in TickTypes
            ELSE st.out[c] = << >> /\ st.sent[c] = << >>
       /\ st.dropped = droppedTickFrames + Cardinality(skipped)

\* C5 witness: a tick was broadcast, skipped for subscriber A and sent to
\* the observed subscriber as a delta, and the counter has counted drops
C5_Witness ==
  /\ lastType = "race:tick"
  /\ lastOut["A"] = << "skipped" >>
  /\ lastOut[Observed] = << "race:delta" >>
  /\ droppedTickFrames = MaxDropped

\* The readings that differ from buf only in subscriber c being one byte
\* above the threshold
Above(buf, c) == [buf EXCEPT ![c] = WS_BACKPRESSURE_THRESHOLD + 1]

\* C6: keyframe, start and finish frames are never skipped for
\* back-pressure: a frame of one of these types is sent to every open
\* subscriber whatever the readings, and a subscriber that is sent a
\* race:keyframe for a tick when its buffer is at the threshold is sent
\* that keyframe too when its buffer is above it.
C6_CriticalFramesNeverSkipped ==
  /\ \A type \in CriticalTypes, r \in Races, buf \in Buffers :
       LET st == Broadcast(BusFrameMsg(type, r), buf, StartOfHandler)
       IN /\ st.dropped = droppedTickFrames
          /\ \A c \in ClientIds :
               IsOpen(c) => Len(st.sent[c]) = 1 /\ st.sent[c][1].type = type
  /\ \A msg \in NextBusTicks, buf \in StepBuffers(clients), c \in ClientIds :
       LET st == Broadcast(msg, buf, StartOfHandler)
           stAbove == Broadcast(msg, Above(buf, c), StartOfHandler)
       IN (IsOpen(c) /\ Len(st.sent[c]) = 1
             /\ st.sent[c][1].type = "race:keyframe") =>
            (Len(stAbove.sent[c]) = 1
               /\ stAbove.sent[c][1].type = "race:keyframe")

\* C7: the observed subscriber is sent no race:delta of a race before it
\* has been sent a race:keyframe of that race since it connected.
C7_KeyframeBeforeDelta ==
  \A msg \in NextBusTicks, buf \in StepBuffers(clients) :
    LET frames == Broadcast(msg, buf, StartOfHandler).sent[Observed]
    IN \A i \in 1 .. Len(frames) :
         frames[i].type = "race:delta" => keyPosSent[msg.raceId] # << >>

\* C8: every race:delta sent to the observed subscriber after a keyframe
\* carries, per horse, the current position minus the position in the last
\* keyframe that subscriber was sent: keyframe positions plus deltas are
\* the current positions of the matrix.
C8_DeltasAgainstLastKeyframe ==
  \A msg \in NextBusTicks, buf \in StepBuffers(clients) :
    LET frames == Broadcast(msg, buf, StartOfHandler).sent[Observed]
        key == keyPosSent[msg.raceId]
    IN \A i \in 1 .. Len(frames) :
         (frames[i].type = "race:delta" /\ key # << >>) =>
           /\ Len(frames[i].deltas) = Len(key)
           /\ \A h \in 1 .. Len(key) :
                key[h] + frames[i].deltas[h] = Positions(msg.tickIndex)[h]

(***************************************************************************)
(* Properties of the cycle state machine                                   *)
(***************************************************************************)
\* C9: every phase change a call of tick() or transition() makes goes from
\* a phase to its single successor in the cycle idle -> countdown ->
\* race_starting -> race_running -> race_finished -> results_showing ->
\* idle.
C9_PhaseChangesFollowCycle ==
  \A i \in 1 .. Len(phasePath) - 1 : phasePath[i + 1] \in ALLOWED(phasePath[i])

\* The phase of the fixed window of a second; the second is -1 between the
\* tick of second 59 and the tick of second 0
WindowPhase(sec) ==
  IF sec <= IdleEnd THEN "idle"
  ELSE IF sec <= CountdownEnd THEN "countdown"
  ELSE IF sec <= RaceEnd THEN "race_running"
  ELSE "results_showing"

\* C10: as long as only tick() drives the machine booted at (idle, 0), the
\* phase after every call is the phase of the window of the current
\* second: idle 0-26, countdown 27-29, race_running 30-50, results_showing
\* 51-59.
C10_PhaseOfWindow ==
  ticksOnly => state = WindowPhase(currentSecond)

\* C11: with only tick() driving the machine, whenever the phase is
\* countdown or race_starting a cycle seed is set and the race precomputed
\* from that seed exists (the seed is assigned and the race precomputed
\* when second 27 is reached from idle).
C11_SeedAndRaceInCountdown ==
  (ticksOnly /\ state \in {"countdown", "race_starting"}) =>
    (currentSeed # 0 /\ precomputed = currentSeed)

\* The last call changed the phase from one phase to another, as its last
\* phase change
LastChange(from, to) ==
  /\ Len(phasePath) >= 2
  /\ phasePath[Len(phasePath) - 1] = from
  /\ phasePath[Len(phasePath)] = to

Successor(phase) ==
  IF phase = "idle" THEN "countdown"
  ELSE IF phase = "countdown" THEN "race_starting"
  ELSE IF phase = "race_starting" THEN "race_running"
  ELSE IF phase = "race_running" THEN "race_finished"
  ELSE IF phase = "race_finished" THEN "results_showing"
  ELSE "idle"

\* C13: transition(next) with next other than the successor of the current
\* phase throws, leaves the phase unchanged and emits no 'state'
\* notification; transition(successor) changes the phase and emits exactly
\* one.  Stated for every phase the machine can be asked for in every
\* reachable state, and for the call that was last made.
C13_TransitionRefused ==
  /\ \A next \in Phases :
       LET m == TransitionIn(Machine(state, currentSecond), next)
       IN IF next = Successor(state)
            THEN m.ok /\ m.state = next /\ m.emits = 1
            ELSE ~m.ok /\ m.state = state /\ m.emits = 0
  /\ lastCall = "transition" =>
       IF threw
         THEN phasePath = << state >> /\ stateEvents = 0
         ELSE /\ stateEvents = 1
              /\ Len(phasePath) = 2
              /\ state = Successor(phasePath[1])
              /\ state = phasePath[2]

\* C13 witness: transition() was called with a phase that is not the
\* successor, at a second inside the race window, and was refused
C13_Witness ==
  /\ lastCall = "transition"
  /\ threw
  /\ stateEvents = 0
  /\ state = "race_running"
  /\ currentSecond > RaceStart

(***************************************************************************)
(* Engine loop                                                             *)
(***************************************************************************)
AllTicks == [i \in 1 .. TotalTicks |-> i - 1]

\* C14: with a started race of TotalTicks ticks, the loop streams the tick
\* indices 0, 1, ..., TotalTicks-1 in increasing order, each exactly once;
\* race:finish is broadcast exactly once, after the tick frame of index
\* TotalTicks-1, and persistence is triggered exactly once with it; and the
\* loop stops itself then: it is no longer running once it has emitted
\* TotalTicks engine ticks since start().
C14_LoopStreamsAllTicksThenStops ==
  /\ Len(streamed) <= TotalTicks
  /\ streamed = SubSeq(AllTicks, 1, Len(streamed))
  /\ finishFrames <= 1
  /\ persisted = finishFrames
  /\ (finishFrames = 1) <=> (streamed = AllTicks)
  /\ running => engineTicks < TotalTicks

\* C15: in every cycle of the running server, the tick frames the loop
\* emits for the cycle's race begin at tick index 0, and the cycle's
\* race:finish frame comes after the tick frames of all its indices.
C15_EveryCycleStreamsFromZero ==
  /\ streamed # << >> => streamed[1] = 0
  /\ finishFrames > 0 => streamed = AllTicks

\* what the loop emits: engineTick events and the frames of the race
loopOutput == << engineTicks, lastEngineTick, streamed, finishFrames,
                 persisted, lastBroadcastedTick, currentTickIndex,
                 seqByRace >>

\* C16: after stop() no loop timer is pending and, until a new start(), no
\* step emits an engineTick or broadcasts a frame of the race; the only
\* step that sets the loop running again is start(), which emits nothing
\* itself and begins at tick index 0: the engineTick events since a start()
\* carry the ticks 0, 1, 2, ... in order.
C16_NoEmissionAfterStop ==
  /\ [](~running => ~timerRef)
  /\ [](running => /\ timerRef
                    /\ tickCount = engineTicks
                    /\ engineTicks > 0 => lastEngineTick = engineTicks - 1)
  /\ [][~running =>
          IF running'
            THEN /\ tickCount' = 0
                 /\ engineTicks' = 0
                 /\ UNCHANGED << lastEngineTick, streamed, finishFrames,
                                 persisted, lastBroadcastedTick,
                                 currentTickIndex, seqByRace >>
            ELSE UNCHANGED loopOutput]_vars

\* a run of the loop reached the last tick index, was stopped, and the run
\* after the next start() has emitted its first engineTick, of tick 0
C16_Witness ==
  /\ running
  /\ engineTicks = 1
  /\ lastEngineTick = 0
  /\ highTickIndex = TotalTicks - 1

\* C17: the currentTickIndex of the race's catch-up snapshot never
\* decreases: it is never below the highest value it has had, over any
\* calls of streamPrecomputedTickAt and engine stop(), reset() and start()
\* while the race is active.
C17_CurrentTickIndexMonotonic ==
  isActive => currentTickIndex >= highTickIndex

(***************************************************************************)
(* Catch-up                                                                *)
(***************************************************************************)
\* C18: a race:catchup response contains at most MAX_CATCHUP_TICKS ticks
\* and no tick whose index is greater than the currentTickIndex it reports,
\* whatever currentTickIndex is and whether fromTick was given or not.
C18_CatchupBound ==
  \A i \in 1 .. Len(syncReply) :
    syncReply[i].type = "race:catchup" =>
      /\ Len(syncReply[i].ticks) <= MAX_CATCHUP_TICKS
      /\ \A j \in 1 .. Len(syncReply[i].ticks) :
           syncReply[i].ticks[j] <= syncReply[i].currentTickIndex

\* C19: the startIndex of the response to a sync:request with a numeric
\* fromTick lies in [max(0, currentTickIndex - MAX_CATCHUP_TICKS),
\* currentTickIndex], for negative fromTick, for fromTick beyond
\* currentTickIndex, and for a seeded race not yet started
\* (currentTickIndex = -1).
C19_StartIndexClamped ==
  \A c \in ClientIds, fromTick \in FromTicks \ {NoFromTick} :
    LET r == HandleSyncRequest(c, RaceOfSeed(precomputed), fromTick)
    IN r.frames # << >> =>
         /\ r.frames[1].type = "race:catchup"
         /\ r.frames[1].startIndex >= Max(0, currentTickIndex - MAX_CATCHUP_TICKS)
         /\ r.frames[1].startIndex <= currentTickIndex

\* the subscriber's last answered request is less than a cooldown ago
InCooldown(c) ==
  lastAnswerAt[c] >= 0 /\ nowMs - lastAnswerAt[c] < SYNC_COOLDOWN_MS

\* C20: per subscriber, two answered sync:requests are never less than
\* SYNC_COOLDOWN_MS apart; a request arriving less than SYNC_COOLDOWN_MS
\* after the subscriber's last answered one gets no frame and leaves the
\* subscriber's cooldown timestamp as it was; a request outside the
\* cooldown whose raceId is missing or names no active race gets exactly
\* one error frame and nothing else.
C20_SyncRateLimit ==
  /\ \A c \in ClientIds : answerGap[c] = -1 \/ answerGap[c] >= SYNC_COOLDOWN_MS
  /\ \A c \in ClientIds, raceId \in Races \cup {NoRace}, fromTick \in FromTicks :
       LET r == HandleSyncRequest(c, raceId, fromTick)
       IN /\ InCooldown(c) =>
               r.frames = << >> /\ r.last = lastSyncByClient[c]
          /\ (~InCooldown(c) /\ raceId # RaceOfSeed(precomputed)) =>
               r.frames = << ErrorFrame >>
          /\ (~InCooldown(c) /\ raceId = RaceOfSeed(precomputed)) =>
               Len(r.frames) = 2 /\ r.frames[1].type = "race:catchup"

\* both subscribers have been answered, the observed one twice exactly one
\* cooldown apart, and the last request was ignored inside the cooldown
C20_Witness ==
  /\ syncReply = << >>
  /\ lastAnswerAt["A"] >= 0
  /\ answerGap[Observed] = SYNC_COOLDOWN_MS

(***************************************************************************)
(* Keepalive                                                               *)
(***************************************************************************)
\* C21: at every keepalive sweep, a subscriber that was pinged at the
\* previous sweep and has sent no pong since is terminated and leaves the
\* subscriber set, and every other subscriber stays; a terminated
\* subscriber is not in the set, was sent nothing by the last handler and
\* is sent nothing by the next broadcast; so a subscriber that answers
\* every ping before the next sweep is never terminated by keepalive.
C21_Keepalive ==
  /\ [](\A c \in ClientIds :
          terminated[c] =>
            /\ ~InClients(c)
            /\ lastOut[c] = << >>
            /\ \A msg \in NextBusTicks :
                 Broadcast(msg, [d \in ClientIds |-> 0],
                           StartOfHandler).sent[c] = << >>)
  /\ [][\A c \in ClientIds :
          IF sweepParity' # sweepParity
            THEN InClients(c) =>
                   IF atSweep[c] /\ ~pongSince[c]
                     THEN terminated'[c] /\ ~InClients(c)'
                     ELSE ~terminated'[c] /\ InClients(c)'
            ELSE terminated'[c] => terminated[c]]_vars

\* the observed subscriber has been terminated by a sweep; the other
\* subscriber is still subscribed, pinged and yet to answer; a frame of the
\* race has arrived from the bus and the observed subscriber has none of it
C21_Witness ==
  /\ terminated[Observed]
  /\ InClients("A")
  /\ atSweep["A"]
  /\ ~clientAlive["A"]
  /\ lastSeqSent["r1"] = 0 /\ busTick["r1"] >= 0


(***************************************************************************)
(* The final state matrix and the winner                                   *)
(***************************************************************************)
\* the tick of resultRow, the last row built
RowTick == effTick - 1

\* C23: every entry of the final state matrix has a position from 0 to
\* finishLine, whatever the base paths and the event timeline.
C23_PositionBounds ==
  effTick >= 1 =>
    \A h \in HorseSet :
      resultRow[h].position >= 0 /\ resultRow[h].position <= FinishLine

\* C24: a horse whose position in the final state matrix equals finishLine
\* at a tick has position finishLine at the next tick, hence at every later
\* tick.
C24_FinishMonotonic ==
  effTick >= 2 =>
    \A h \in HorseSet :
      resultPrev[h].position = FinishLine => resultRow[h].position = FinishLine

\* C25: from the tick at which ufo_abduction removes a horse on, the horse
\* is marked removed in every row, its speed is 0, ufo_abduction is among
\* its activeEvents, and its position is the one of the row before, hence
\* the one it had at the tick before its removal.
C25_RemovalFreezes ==
  \A h \in HorseSet :
    removedAt[h] >= 0 =>
      /\ RowTick >= removedAt[h]
      /\ resultRow[h].isRemoved
      /\ resultRow[h].speed = 0
      /\ "ufo_abduction" \in resultRow[h].activeEvents
      /\ RowTick >= 1 => resultRow[h].position = resultPrev[h].position

\* a horse was removed after the first tick, the rows have gone on past
\* the abduction's durationTicks, and the horse stands behind its base path
C25_Witness ==
  \E h \in HorseSet :
    /\ removedAt[h] >= 1
    /\ RowTick > removedAt[h] + DurationTicks("ufo_abduction")
    /\ resultRow[h].isRemoved
    /\ resultRow[h].position < BasePosition(RowTick, h)
    /\ eventsApplied = MaxEvents

\* C26: at every tick t >= 1, a horse that is stunned at t and on which no
\* hook_shot and no rocket_boost starts at t has the position it had at
\* t - 1.
C26_StunNoMotion ==
  RowTick >= 1 =>
    \A h \in HorseSet :
      (/\ resultRow[h].isStunned
       /\ ~StartsAtTick(activeEventsWindows, h, "hook_shot", RowTick)
       /\ ~StartsAtTick(activeEventsWindows, h, "rocket_boost", RowTick))
        => resultRow[h].position = resultPrev[h].position

\* C27: for a chain_reaction placed at tick T and a horse not removed then,
\* every row from T through T + 20 lists chain_stun among the horse's
\* activeEvents, and the horse's position in every row after T up to
\* T + 20 is the one of the row before.
C27_ChainStunWindow ==
  \A h \in HorseSet : \A T \in chainAt[h] :
    (RowTick >= T /\ RowTick <= T + chainStunDuration) =>
      /\ CHAIN_STUN_ID \in resultRow[h].activeEvents
      /\ RowTick > T => resultRow[h].position = resultPrev[h].position

\* the horses that have been at the finish line, not removed, and the
\* first tick at which one was
Reached == {h \in HorseSet : reachedAt[h] >= 0}
EarliestReach == CHOOSE t \in {reachedAt[h] : h \in Reached} :
                   \A h \in Reached : t <= reachedAt[h]
\* "horse-i" before "horse-j" in lexicographic order
LexBefore(a, b) == HorseIdx(a) <= HorseIdx(b)

\* C28: determineWinner returns null exactly when no non-removed horse has
\* reached finishLine in the matrix; otherwise it returns the earliest tick
\* at which one has, and the lexicographically smallest id among the
\* non-removed horses at finishLine at that tick.
C28_WinnerRule ==
  /\ WinnerOf(crossingIds) = NoWinner <=> Reached = {}
  /\ Reached # {} =>
       /\ firstCrossTick = EarliestReach
       /\ WinnerOf(crossingIds) \in Reached
       /\ reachedAt[WinnerOf(crossingIds)] = EarliestReach
       /\ \A h \in Reached :
            reachedAt[h] = EarliestReach => LexBefore(WinnerOf(crossingIds), h)

\* both horses reach the finish line at one tick, after the start
C28_Witness ==
  /\ \A h \in HorseSet : reachedAt[h] = firstCrossTick
  /\ firstCrossTick >= 1
  /\ crossingIds = HorseSet
  /\ WinnerOf(crossingIds) = Horses[1]


(***************************************************************************)
(* Frames relayed by an edge                                               *)
(***************************************************************************)
\* C22: while the role is not leader, every frame broadcast() sends a
\* subscriber for a tick frame received from the bus, whatever the
\* subscriber's mode (plain, delta, binary), carries the seq and the
\* signature with its keyId (sig stands for the pair) that the frame
\* arrived with; the node attaches, changes or removes none of them.
C22_EdgePassesSeqAndSig ==
  role # "leader" =>
    \A msg \in NextBusTicks, buf \in StepBuffers(clients) :
      LET st == Broadcast(msg, buf, StartOfHandler)
      IN \A c \in ClientIds : \A i \in 1 .. Len(st.sent[c]) :
           st.sent[c][i].seq = msg.seq /\ st.sent[c][i].sig = msg.sig


(***************************************************************************)
(* The event timeline                                                      *)
(***************************************************************************)
\* the instances placed so far, each with its tick and its position there
PlacedInstances ==
  {p \in (0 .. NumTicks - 1) \X (1 .. NumCandidates) : p[2] <= Len(placed[p[1]])}

\* C29: any two placed instances of one event id are at least
\* MIN_SPACING_TICKS ticks apart, for every catalog and every assignment
\* of candidate ticks.
C29_SchedulerSpacing ==
  \A p \in PlacedInstances, q \in PlacedInstances :
    (p # q /\ placed[p[1]][p[2]].id = placed[q[1]][q[2]].id) =>
      (p[1] - q[1] >= MIN_SPACING_TICKS \/ q[1] - p[1] >= MIN_SPACING_TICKS)

PlacedAt(id, t) == \E i \in 1 .. Len(placed[t]) : placed[t][i].id = id

\* the loop is over in a catalog without conflicts: one id is placed
\* twice, exactly MIN_SPACING_TICKS apart, and the other id is placed at
\* tick 0 while its candidate one tick short of the spacing was skipped
C29_Witness ==
  /\ nextCandidate > Len(candidates)
  /\ \A id \in CatalogIdSet : catalog.conflictsWith[id] = {}
  /\ \E id \in CatalogIdSet, other \in CatalogIdSet :
       /\ id # other
       /\ PlacedAt(id, 0)
       /\ PlacedAt(id, MIN_SPACING_TICKS)
       /\ PlacedAt(other, 0)
       /\ ~PlacedAt(other, MIN_SPACING_TICKS - 1)
       /\ \E k \in 1 .. Len(candidates) :
            /\ candidates[k].id = other
            /\ candidates[k].tickIndex = MIN_SPACING_TICKS - 1
            /\ candidates[k].weight > 0

\* C30: no tick holds two placed instances one of which names the other's
\* id in its conflictsWith, also when the catalog's lists are not
\* symmetric.
C30_SchedulerConflicts ==
  \A p \in PlacedInstances, q \in PlacedInstances :
    (p # q /\ p[1] = q[1]) =>
      LET a == placed[p[1]][p[2]].id
          b == placed[q[1]][q[2]].id
      IN ~(a \in catalog.conflictsWith[b] \/ b \in catalog.conflictsWith[a])

\* the loop is over; in a catalog where only the entry placed first names
\* the other's id, both had a candidate of positive weight at one tick and
\* that tick holds the first alone
C30_Witness ==
  /\ nextCandidate > Len(candidates)
  /\ \E a \in CatalogIdSet, b \in CatalogIdSet, t \in CandidateTicks :
       /\ a # b
       /\ b \in catalog.conflictsWith[a]
       /\ a \notin catalog.conflictsWith[b]
       /\ Len(placed[t]) = 1
       /\ placed[t][1].id = a
       /\ lastPlacedById[b] < t
       /\ \E k \in 1 .. Len(candidates) :
            /\ candidates[k].id = b
            /\ candidates[k].tickIndex = t
            /\ candidates[k].weight > 0

\* the number of placed instances of an id in the whole race
PlacedInRace(id) ==
  Cardinality({p \in PlacedInstances : placed[p[1]][p[2]].id = id})

\* C31: at every tick the number of placed instances of an id is at most
\* the catalog's maxConcurrent of the id, and the number of placed
\* instances of an id in the whole race is at most its
\* maxOccurrencesPerRace, at every point of the placement loop.
C31_ConcurrencyCap ==
  \A id \in CatalogIdSet :
    /\ \A t \in 0 .. NumTicks - 1 :
         Cardinality({i \in 1 .. Len(placed[t]) : placed[t][i].id = id})
           <= catalog.maxConcurrent[id]
    /\ PlacedInRace(id) <= MaxOccurrences

\* the loop is over; an id had all its candidates, of positive weight, at
\* one tick, and that tick holds exactly one instance of it
C31_Witness ==
  /\ nextCandidate > Len(candidates)
  /\ \E id \in CatalogIdSet, t \in CandidateTicks :
       /\ Cardinality({k \in 1 .. Len(candidates) :
                         /\ candidates[k].id = id
                         /\ candidates[k].tickIndex = t
                         /\ candidates[k].weight > 0}) = MaxOccurrences
       /\ SameIdCount([id |-> id], placed[t]) = 1
       /\ PlacedInRace(id) = 1

C33_FailedWriteStaysUnsaved ==
  /\ (savePc = "done" /\ failedWrites # {}) => PersistRace \in unsaved
  /\ summaryFile # "partial"

InSwap(h) ==
  /\ activeSwaps[h] # NoSwap
  /\ RowTick >= activeSwaps[h].startTick
  /\ RowTick < activeSwaps[h].endTick

\* C35: at every tick of a swap window, each of the two horses (neither
\* removed) is at the other's previous-tick final position plus the
\* other's move delta and instant offsets, floored at 0, and is in the
\* other's lane.
C35_SwapSymmetric ==
  effTick >= 1 =>
    \A a \in HorseSet :
      LET b == activeSwaps[a].withHorseId
      IN (InSwap(a) /\ ~removed[a] /\ ~removed[b]) =>
           /\ resultRow[a].position =
                CandidatePos(LoopMaps,
                             [h \in HorseSet |-> resultPrev[h].position],
                             b, RowTick)
           /\ resultRow[a].lane = HorseIdx(b) - 1

(***************************************************************************)
(* The schedule of the engine loop                                         *)
(***************************************************************************)
\* C36: while the loop runs, after k emitted ticks the planned time of the
\* next tick is the start time plus k * TICK_INTERVAL, whenever the
\* callbacks ran, and the pending timer is due at the planned time, or at
\* once when the planned time had passed when it was set (a delay of
\* max(0, planned - now)).
C36_ScheduleAdvancesByInterval ==
  running =>
    /\ nextTickTime = startedAt + engineTicks * TICK_INTERVAL
    /\ timerRef => timerDue = Max(nextTickTime, timerSetAt)

\* the loop has emitted three ticks; the timer it has just set is due at
\* once because the planned time had passed by more than a tick interval
C36_Witness ==
  /\ running
  /\ timerRef
  /\ engineTicks = 3
  /\ timerSetAt > nextTickTime + TICK_INTERVAL
  /\ timerDue = timerSetAt

(***************************************************************************)
(* The winner announced                                                    *)
(***************************************************************************)
\* C37: when the final state matrix of a race is complete, the winner of
\* its race:finish frame (the first entry of finishOrder) is the winnerId
\* derived from the matrix, for every base path and every event timeline.
C37_FinishWinnerIsOutcomeWinner ==
  effTick = NumTicks => FinishFrameWinner = WinnerFromMatrix

(***************************************************************************)
(* The frames of a race                                                    *)
(***************************************************************************)
\* positions in frameLog of the frames of the type for the race
FramesOf(type, r) ==
  {i \in 1 .. Len(frameLog) : frameLog[i].type = type /\ frameLog[i].race = r}

\* C38: for every race, every race:tick frame that carries its positions
\* comes after its race:start frame and before its race:finish frame, the
\* tick indices of its frames increase strictly, and its race:finish
\* comes after its race:start.
C38_FrameOrder ==
  \A r \in 1 .. MaxCycles :
    /\ \A i \in FramesOf("race:tick", r) :
         /\ \E j \in FramesOf("race:start", r) : j < i
         /\ \A j \in FramesOf("race:finish", r) : i < j
    /\ \A i \in FramesOf("race:tick", r), j \in FramesOf("race:tick", r) :
         i < j => frameLog[i].tick < frameLog[j].tick
    /\ \A i \in FramesOf("race:finish", r) :
         \E j \in FramesOf("race:start", r) : j < i

(***************************************************************************)
(* Leader election                                                         *)
(***************************************************************************)
\* C39: over every interleaving of the steps of tryAcquire and
\* renewIfLeader of two nodes and of the expiry of the leader key, the two
\* nodes never both have the role leader.
C39_LeaderExclusion ==
  ~(electorRole["n1"] = "leader" /\ electorRole["n2"] = "leader")

(***************************************************************************)
(* The timers of MasterTimeline                                            *)
(***************************************************************************)
\* at most one pending timer per id
OnePendingPerId ==
  \A id \in TimerIds : Cardinality({p \in pendingTimers : p.id = id}) <= 1

\* every pending timer is the timer of the entry of its id
PendingRegistered ==
  \A p \in pendingTimers : timers[p.id].timerRef = p.ref

\* C40: the callback of a timer that was pending when its id was cleared,
\* when its race was cleared or when the timeline was shut down never runs
\* afterwards, also when one-shot callbacks schedule their own id again.
C40_ClearedNeverRuns == ranAfterClear = {}

====
